---- MODULE Spec2Model ----
(***************************************************************************)
(* Signal-state coordination core of the traffic platform                  *)
(* (src/traffic-platform/src/signals/signal_controller.py).                *)
(*                                                                         *)
(* SignalController keeps one SignalState object per signal id in the dict *)
(* signal_states.  The dict is shared, without any lock, by the monitor    *)
(* thread (_monitor_signals, "the ticker") and by the request handlers     *)
(* (emergency_override, restore_normal_operation, update_timing).  The     *)
(* model has one process per thread; a step of a process is the code       *)
(* between two accesses of the shared dict that another thread can         *)
(* separate (a read of a record and the later replacement of that record). *)
(*                                                                         *)
(* Objects.  SignalState objects are heap objects and the code replaces    *)
(* the object of an id by a new one on every change of phase; the only     *)
(* field assigned in place is normal_timing, and always on the object the  *)
(* dict holds at that moment.  signal_states therefore holds the current   *)
(* object of each id by value, and a thread's local reference (cur) says   *)
(* whether it still denotes that object (attached) or an object that has   *)
(* been replaced since; of a replaced object only normal_timing is read    *)
(* afterwards, so the reference keeps that value.                          *)
(*                                                                         *)
(* Time.  The code stores state_start_time and only ever uses the          *)
(* difference utcnow() - state_start_time, compared with remaining_time.   *)
(* A record carries that difference as the field elapsed: 0 when the       *)
(* record is built, increased by every Tick, and no longer counted once it *)
(* has reached remaining_time (every test of the code gives the same       *)
(* answer from there on).  The start time of a scheduled corridor override *)
(* is kept in the same way, as the time still to wait (due_in).            *)
(*                                                                         *)
(* Redis.  The only Redis content another part of the program could act on *)
(* is the set of scheduled_override keys written by                        *)
(* _schedule_signal_override: the variable scheduled.  A Redis command may *)
(* raise; _update_redis_state and _log_signal_event swallow the exception, *)
(* _schedule_signal_override turns it into a failure result.  redis_error  *)
(* says whether a Redis command raised in the step just taken.             *)
(*                                                                         *)
(* monitoring_active is the flag of that name: set by __init__, cleared by *)
(* shutdown, read by the while test of the monitor thread.                 *)
(* confidence_threshold is the field of that name of the detector, in      *)
(* hundredths (0.85 from the environment default of line 26).              *)
(*                                                                         *)
(* timing_profile is a history variable: for each id, the new_timing of    *)
(* the last update_timing call on it that returned success (NoTiming when  *)
(* there was none).  No action reads it.                                   *)
(***************************************************************************)
EXTENDS Integers, Sequences, FiniteSets, TLC

VARIABLES signal_states, order, ticker, handlers, nreq, nticks, last,
          scheduled, corridor, redis_error, monitoring_active, confidence_threshold,
          timing_profile

vars == <<signal_states, order, ticker, handlers, nreq, nticks, last,
          scheduled, corridor, redis_error, monitoring_active, confidence_threshold,
          timing_profile>>

(***************************************************************************)
(* Bounds of the model.                                                    *)
(***************************************************************************)
MaxRequests == 2
MaxTicks == 4
MaxRouteLen == 3
MaxCorridorDuration == 130

(***************************************************************************)
(* Program constants.                                                      *)
(***************************************************************************)
red_duration == 45
yellow_duration == 5
green_duration == 30
default_red_duration == 45
emergency_override_duration == 60

(***************************************************************************)
(* Inputs.                                                                 *)
(***************************************************************************)
default_signals == <<"clock_tower">>
SignalIds == {"clock_tower", "new_signal"}
Handlers == {"h1", "h2"}
TimeSteps == {15}
OverrideArgs == {[duration |-> 5, reason |-> "ambulance"],
                 [duration |-> emergency_override_duration, reason |-> "fire_truck"],
                 [duration |-> 0, reason |-> "drill"]}

(* A duration that is no number: the JSON body of an override request may
   hold a string under "duration", and main.py passes the value on as it is.
   Arithmetic and comparisons against it raise TypeError. *)
TextDuration == 0 - 1

IsNumber(d) == d # TextDuration

(* the "duration" key of the JSON body of POST /api/signals/<id>/override:
   absent (60 is taken), a number, a string *)
JsonDurations == {60, 5, TextDuration}

(* arguments of the coordinate_green_corridor requests *)
CorridorCalls == {[route_signals |-> <<>>, duration |-> 120],
                  [route_signals |-> <<"clock_tower", "new_signal">>, duration |-> 60],
                  [route_signals |-> <<"clock_tower">>, duration |-> 0]}

(* longer routes, for the behaviours in which only corridor requests arrive *)
LongCorridorCalls == {[route_signals |-> <<"clock_tower", "new_signal", "clock_tower">>,
                       duration |-> 90],
                      [route_signals |-> <<"new_signal", "clock_tower">>, duration |-> 5]}

(* short corridors: in the first two calls the second signal of the route
   gets no green window and is left out of the plan *)
ShortCorridorCalls == {[route_signals |-> <<"clock_tower", "new_signal">>, duration |-> 5],
                       [route_signals |-> <<"new_signal", "clock_tower">>, duration |-> 5],
                       [route_signals |-> <<"clock_tower", "new_signal">>, duration |-> 60],
                       [route_signals |-> <<"new_signal">>, duration |-> 0]}

TimingDict(r, y, g) ==
    [kind |-> "timing", red_duration |-> r, yellow_duration |-> y,
     green_duration |-> g, cycle_time |-> r + y + g]

(* a key of the timing_config dict of a request: absent, or present with a
   value that is an int or not (a string, a float, None) *)
Field(v) == [present |-> TRUE, is_int |-> TRUE, value |-> v]
MissingField == [present |-> FALSE, is_int |-> FALSE, value |-> 0]
NotAnInt == [present |-> TRUE, is_int |-> FALSE, value |-> 0]

TimingConfigs ==
    {[red_duration |-> Field(10), yellow_duration |-> Field(10), green_duration |-> Field(5)],
     [red_duration |-> Field(10), yellow_duration |-> MissingField, green_duration |-> Field(5)],
     [red_duration |-> NotAnInt, yellow_duration |-> Field(10), green_duration |-> Field(5)],
     [red_duration |-> Field(10), yellow_duration |-> Field(10), green_duration |-> Field(0)]}

(***************************************************************************)
(* SignalTiming() and the values normal_timing takes: None, a SignalTiming *)
(* dict, or the diagnostic snapshot emergency_override stores there.       *)
(***************************************************************************)
default_timing == TimingDict(red_duration, yellow_duration, green_duration)

NoTiming == [kind |-> "none"]

(***************************************************************************)
(* SignalState.  written_by is a history field: the code path that built   *)
(* the object.  NoSignal stands for an id that is not a key of the dict.   *)
(***************************************************************************)
SignalState(cs, remaining, override, reason, timing, by) ==
    [current_state |-> cs, elapsed |-> 0, remaining_time |-> remaining,
     is_emergency_override |-> override, override_reason |-> reason,
     normal_timing |-> timing, written_by |-> by]

NoSignal == SignalState("absent", 0, FALSE, "", NoTiming, "")

(* line 23: the value override_reason takes when the constructor call does
   not pass it (lines 88, 197, 207 and 559) *)
(* variant: the field has no default and holds None *)
override_reason_default_None == "None"

override_reason_default == ""

Exists(s) == signal_states[s] # NoSignal

(***************************************************************************)
(* Local references to SignalState objects.                                *)
(***************************************************************************)
NoRef == [attached |-> FALSE, normal_timing |-> NoTiming]
CurrentRef == [attached |-> TRUE, normal_timing |-> NoTiming]

(* cur.normal_timing as the thread holding cur reads it *)
NormalTimingOf(cur, id) ==
    IF cur.attached THEN signal_states[id].normal_timing ELSE cur.normal_timing

(* the local reference of a thread after the object of id was replaced *)
Detached(t, id) ==
    IF t.signal_id = id /\ t.cur.attached
    THEN [t EXCEPT !.cur = [attached |-> FALSE,
                            normal_timing |-> signal_states[id].normal_timing]]
    ELSE t

(***************************************************************************)
(* Results returned to the caller of a request handler.                    *)
(***************************************************************************)
Result(ok, action, id, state, d, err) ==
    [success |-> ok, action |-> action, signal_id |-> id, new_state |-> state,
     duration |-> d, error |-> err, new_timing |-> NoTiming]

NoResult == Result(FALSE, "none", "", "", 0, "")

(* a request that returns: the operation, the id it was called on, its result *)
Returned(op, id, result) == [op |-> op, signal_id |-> id, result |-> result]

NoReturn == Returned("", "", NoResult)

IdleTicker == [pc |-> "sleep", queue |-> <<>>, signal_id |-> "",
               cur |-> NoRef, next_state |-> "", next_duration |-> 0]

IdleHandler == [pc |-> "idle", op |-> "", signal_id |-> "", duration |-> 0,
                reason |-> "", cfg |-> NoTiming, cur |-> NoRef,
                route_signals |-> <<>>, total_duration |-> 0, coordination_plan |-> <<>>,
                i |-> 0, waited |-> 0,
                successful_coordinates |-> <<>>, failed_coordinates |-> <<>>,
                endpoint |-> "", is_emergency |-> FALSE]

(***************************************************************************)
(* The dict coordinate_green_corridor returns (lines 374-384), and the     *)
(* arguments of a call whose plan is being computed.                       *)
(***************************************************************************)
(* variant: success only when no signal failed *)
CorridorResult_AllOrNothing(pc, route, d, plan, succeeded, failed) ==
    [pc |-> pc, route_signals |-> route, total_duration |-> d,
     coordination_plan |-> plan, successful_coordinates |-> succeeded,
     failed_coordinates |-> failed, success |-> failed = <<>> /\ succeeded # <<>>]

CorridorResult(pc, route, d, plan, succeeded, failed) ==
    [pc |-> pc, route_signals |-> route, total_duration |-> d,
     coordination_plan |-> plan, successful_coordinates |-> succeeded,
     failed_coordinates |-> failed, success |-> Len(succeeded) > 0]

NoCorridor == CorridorResult("none", <<>>, 0, <<>>, <<>>, <<>>)

(* a step that is not the return of coordinate_green_corridor and writes no
   scheduled_override key *)
OutsideCorridor == corridor' = NoCorridor /\ UNCHANGED scheduled

(***************************************************************************)
(* _create_signal_if_not_exists, lines 88-94: the record of a new signal.  *)
(***************************************************************************)
(* variant: a new signal starts RED with the override flag set *)
NewSignalState_Overridden ==
    SignalState("red", default_red_duration, TRUE, override_reason_default, default_timing,
                "create")

NewSignalState ==
    SignalState("red", default_red_duration, FALSE, override_reason_default, default_timing,
                "create")

(***************************************************************************)
(* State after SignalController.__init__: the default signals exist, RED.  *)
(***************************************************************************)
InitController ==
    /\ signal_states = [s \in SignalIds |->
                          IF \E i \in 1..Len(default_signals) : default_signals[i] = s
                          THEN NewSignalState ELSE NoSignal]
    /\ order = default_signals
    /\ ticker = IdleTicker
    /\ handlers = [h \in Handlers |-> IdleHandler]
    /\ nreq = 0
    /\ nticks = 0
    /\ last = NoReturn
    /\ scheduled = {}
    /\ redis_error = FALSE
    /\ monitoring_active = TRUE
    /\ confidence_threshold = 85
    /\ timing_profile = [s \in SignalIds |-> NoTiming]

Init ==
    /\ InitController
    /\ corridor = NoCorridor

(***************************************************************************)
(* datetime.utcnow() advances between any two steps.                       *)
(***************************************************************************)
Min(a, b) == IF a <= b THEN a ELSE b

Max(a, b) == IF a >= b THEN a ELSE b

(* waited is only subtracted from the delays of the plan (line 325 against
   utcnow), so it is not counted beyond the largest of them *)
LastDelay(req) ==
    (Len(req.route_signals) - 1) * Max(10, req.total_duration \div Len(req.route_signals))

Tick ==
    /\ UNCHANGED <<monitoring_active, confidence_threshold, timing_profile>>
    /\ nticks < MaxTicks
    /\ nticks' = nticks + 1
    /\ \E dt \in TimeSteps :
         /\ signal_states' = [s \in SignalIds |->
                                [signal_states[s] EXCEPT
                                   !.elapsed = IF IsNumber(signal_states[s].remaining_time)
                                               THEN Min(@ + dt, signal_states[s].remaining_time)
                                               ELSE 0]]
         /\ handlers' = [h \in Handlers |->
                           [handlers[h] EXCEPT
                              !.waited = IF handlers[h].op = "coordinate"
                                         THEN Min(@ + dt, LastDelay(handlers[h]))
                                         ELSE @]]
         /\ scheduled' = {[e EXCEPT !.due_in = Max(0, @ - dt)] : e \in scheduled}
    /\ last' = NoReturn
    /\ corridor' = NoCorridor
    /\ redis_error' = FALSE
    /\ UNCHANGED <<order, ticker, nreq>>

(***************************************************************************)
(* _monitor_signals, lines 523-526: the deadline test on a listed record.  *)
(***************************************************************************)
(* variant: the comparison of line 526 is reversed *)
Expired_Reversed(rec) ==
    rec.elapsed <= rec.remaining_time

Expired(rec) ==
    rec.elapsed >= rec.remaining_time

(***************************************************************************)
(* _transition_to_next_state, line 545: building a SignalTiming from the   *)
(* keys of normal_timing raises TypeError on the snapshot dict, whose keys  *)
(* are not fields of SignalTiming; None selects default_timing.            *)
(***************************************************************************)
TimingUsable(nt) == nt.kind # "snapshot"

TimingOf(nt) == IF nt.kind = "timing" THEN nt ELSE default_timing

(***************************************************************************)
(* _transition_to_next_state, lines 548-556.                               *)
(***************************************************************************)
(* variant: a yellow phase is followed by a flashing phase *)
NextState_Flashing(cs) ==
    IF cs = "red" THEN "green" ELSE IF cs = "green" THEN "yellow" ELSE "flashing"

NextState(cs) ==
    IF cs = "red" THEN "green" ELSE IF cs = "green" THEN "yellow" ELSE "red"

(* variant: the duration of the phase that is left, not of the one entered *)
NextDuration_OfCurrent(cs, timing) ==
    IF cs = "red" THEN timing.red_duration
    ELSE IF cs = "green" THEN timing.green_duration
    ELSE timing.yellow_duration

NextDuration(cs, timing) ==
    IF cs = "red" THEN timing.green_duration
    ELSE IF cs = "green" THEN timing.yellow_duration
    ELSE timing.red_duration

(***************************************************************************)
(* _transition_to_next_state, lines 559-566: the record that replaces the  *)
(* one read at line 544; normal_timing is read again from that object.     *)
(***************************************************************************)
(* variant: the record is taken out of the dict when its phase ends *)
TransitionState_Drop(next_state, next_duration, nt) == NoSignal

TransitionState(next_state, next_duration, nt) ==
    SignalState(next_state, next_duration, FALSE, override_reason_default, nt, "ticker")

(***************************************************************************)
(* restore_normal_operation, lines 192-213: YELLOW when the overridden     *)
(* record has a normal_timing, RED otherwise.                              *)
(***************************************************************************)
(* variant: the phase and remaining time saved before the override are resumed *)
RestoreState_Resume(nt) ==
    IF nt.kind = "snapshot"
    THEN SignalState(nt.state, nt.remaining_time, FALSE, "", NoTiming, "restore")
    ELSE SignalState("yellow", default_timing.yellow_duration, FALSE, "", NoTiming, "restore")

RestoreState(nt) ==
    IF nt.kind # "none"
    THEN SignalState("yellow", default_timing.yellow_duration, FALSE, override_reason_default,
                     NoTiming, "restore")
    ELSE SignalState("red", default_red_duration, FALSE, override_reason_default,
                     NoTiming, "restore")

(***************************************************************************)
(* restore_normal_operation, lines 183-189: the two early returns.         *)
(***************************************************************************)
(* variant: the test of line 188 is missing *)
RestoreError_NoModeCheck(rec) ==
    IF rec = NoSignal THEN "Signal not found" ELSE ""

RestoreError(rec) ==
    IF rec = NoSignal THEN "Signal not found"
    ELSE IF ~rec.is_emergency_override THEN "Signal is not in emergency override"
    ELSE ""

(***************************************************************************)
(* _update_redis_state, lines 475-494, and _log_signal_event, lines        *)
(* 498-513, as their caller sees them: the Redis commands are inside a try *)
(* whose except clause logs the exception and returns.  MirrorRaises: one  *)
(* of the two calls a handler makes after its write lets an exception out; *)
(* ErrorResult: the dict the except clause of the handler then returns.    *)
(***************************************************************************)
(* variant: the exception of the Redis command is not caught *)
update_redis_state_Propagates(redis_ok) == IF redis_ok THEN "stored" ELSE "raised"

update_redis_state(redis_ok) == IF redis_ok THEN "stored" ELSE "logged"

log_signal_event(redis_ok) == IF redis_ok THEN "stored" ELSE "logged"

MirrorRaises(redis_ok) ==
    update_redis_state(redis_ok) = "raised" \/ log_signal_event(redis_ok) = "raised"

ErrorResult(id) == Result(FALSE, "", id, "", 0, "redis")

(***************************************************************************)
(* restore_normal_operation, lines 214-235: the else branch leaves         *)
(* override_duration unbound, the log call raises NameError and the        *)
(* except clause returns a failure after the record was replaced.          *)
(***************************************************************************)
RestoreResult(id, nt, cs) ==
    IF nt.kind # "none"
    THEN Result(TRUE, "restore_normal", id, cs, 0, "")
    ELSE Result(FALSE, "restore_normal", "", "", 0, "NameError")

(***************************************************************************)
(* emergency_override, lines 123-128: the diagnostic snapshot assigned in  *)
(* place to normal_timing of the record that is about to be replaced.      *)
(***************************************************************************)
OverrideSnapshot(rec) ==
    [kind |-> "snapshot", state |-> rec.current_state,
     remaining_time |-> rec.remaining_time]

(* variant: the snapshot is taken again on every call, overridden or not *)
KeepsTiming_Never(rec) == FALSE

KeepsTiming(rec) == rec.is_emergency_override

(***************************************************************************)
(* emergency_override, lines 131-139 and 153-162.                          *)
(***************************************************************************)
(* variant: override_reason is not passed to the new record *)
OverrideState_NoReason(d, r, nt) ==
    SignalState("green", d, TRUE, "", nt, "override")

OverrideState(d, r, nt) ==
    SignalState("green", d, TRUE, r, nt, "override")

(* line 161: timedelta(seconds=duration) raises TypeError on a string, after
   the record was stored, and the except clause of line 164 returns *)
OverrideResult(id, d) ==
    IF IsNumber(d) THEN Result(TRUE, "emergency_override", id, "green", d, "")
    ELSE Result(FALSE, "", id, "", 0, "TypeError")

(***************************************************************************)
(* update_timing, lines 253-259 and 262-271.                               *)
(***************************************************************************)
FieldError(f, name) ==
    IF ~f.present THEN "Missing required field: " \o name
    ELSE IF ~f.is_int \/ f.value <= 0 THEN "Invalid value for " \o name
    ELSE ""

TimingError(cfg) ==
    IF FieldError(cfg.red_duration, "red_duration") # ""
    THEN FieldError(cfg.red_duration, "red_duration")
    ELSE IF FieldError(cfg.yellow_duration, "yellow_duration") # ""
    THEN FieldError(cfg.yellow_duration, "yellow_duration")
    ELSE FieldError(cfg.green_duration, "green_duration")

(* variant: cycle_time is left at the default of the dataclass *)
NewTiming_DefaultCycle(cfg) ==
    [TimingDict(cfg.red_duration.value, cfg.yellow_duration.value, cfg.green_duration.value)
        EXCEPT !.cycle_time = 80]

NewTiming(cfg) ==
    TimingDict(cfg.red_duration.value, cfg.yellow_duration.value, cfg.green_duration.value)

(***************************************************************************)
(* coordinate_green_corridor, lines 313-334: the coordination plan.  i is  *)
(* the index of enumerate (from 0).  green_start_time of an entry is the   *)
(* start_time of line 314 plus delay_from_start, so the entry carries the  *)
(* delay only.                                                             *)
(***************************************************************************)
(* variant: no floor of 10 s per signal *)
signal_interval_NoFloor(route_signals, duration) ==
    duration \div Len(route_signals)

signal_interval(route_signals, duration) ==
    Max(10, duration \div Len(route_signals))

(* variant: the first signal waits one interval as well *)
PlanEntry_FromOne(route_signals, duration, i) ==
    LET green_start_delay == (i + 1) * signal_interval(route_signals, duration)
    IN  [signal_id |-> route_signals[i + 1],
         green_duration |-> Min(60, duration - green_start_delay),
         delay_from_start |-> green_start_delay]

PlanEntry(route_signals, duration, i) ==
    LET green_start_delay == i * signal_interval(route_signals, duration)
    IN  [signal_id |-> route_signals[i + 1],
         green_duration |-> Min(60, duration - green_start_delay),
         delay_from_start |-> green_start_delay]

RECURSIVE PlanFrom(_, _, _)

PlanFrom(route_signals, duration, i) ==
    IF i >= Len(route_signals) THEN <<>>
    ELSE LET plan == PlanEntry(route_signals, duration, i)
         IN  (IF plan.green_duration > 0 THEN <<plan>> ELSE <<>>)
               \o PlanFrom(route_signals, duration, i + 1)

(* variant: the test of line 328 is missing, every signal gets an entry *)
coordination_plan_Unfiltered(route_signals, duration) ==
    [k \in 1..Len(route_signals) |-> PlanEntry(route_signals, duration, k - 1)]

coordination_plan(route_signals, duration) == PlanFrom(route_signals, duration, 0)

(***************************************************************************)
(* The monitor thread.  Its position: "sleep" between passes, "scan"       *)
(* inside the for loop, "trans" between lines 544-556 and the write of     *)
(* line 559, "restore" between lines 183-194 and the write of line 197.    *)
(* The queue is the list of line 521 with, for each listed record, the     *)
(* outcome of the tests of lines 526 and 527 (they read fields that never  *)
(* change once the record is built, against the current_time of line 519). *)
(* raises: the comparison of line 526 raises TypeError, which no try inside *)
(* the for loop catches.                                                   *)
(***************************************************************************)
ListEntry(id) ==
    [signal_id |-> id,
     raises |-> ~IsNumber(signal_states[id].remaining_time),
     expired |-> IsNumber(signal_states[id].remaining_time) /\ Expired(signal_states[id]),
     is_emergency_override |-> signal_states[id].is_emergency_override]

(* lines 537-539: the except clause is outside the for loop, so the rest of
   the list is dropped and the thread sleeps until the next pass *)
AfterRaise(rest) == IdleTicker

AfterEntry(rest) ==
    [IdleTicker EXCEPT !.pc = IF rest = <<>> THEN "sleep" ELSE "scan", !.queue = rest]

(* variant: the fields of the existing object are assigned one by one and an
   override record that is already there keeps its reason *)
Replace_InPlace(id, new) ==
    signal_states' =
        [signal_states EXCEPT ![id] =
            IF signal_states[id].is_emergency_override /\ new.is_emergency_override
            THEN [new EXCEPT !.override_reason = signal_states[id].override_reason]
            ELSE new]

(* a thread replaces the object of id: the references of the others detach *)
Replace(id, new) ==
    signal_states' = [signal_states EXCEPT ![id] = new]

OtherHandlers(h, id) ==
    [g \in Handlers |-> IF g = h THEN handlers[g] ELSE Detached(handlers[g], id)]

(* line 517, then lines 519-521: current_time and the list of the dict's items *)
(* variant: the loop of line 517 is while True *)
KeepsMonitoring_Forever == TRUE

(* line 517: the condition of the while loop *)
KeepsMonitoring == monitoring_active

monitor_begin_pass ==
    /\ KeepsMonitoring
    /\ UNCHANGED <<monitoring_active, confidence_threshold, timing_profile>>
    /\ OutsideCorridor
    /\ ticker.pc = "sleep"
    /\ ticker' = [ticker EXCEPT !.pc = "scan",
                                !.queue = [i \in 1..Len(order) |-> ListEntry(order[i])]]
    /\ last' = NoReturn
    /\ redis_error' = FALSE
    /\ UNCHANGED <<signal_states, order, handlers, nreq, nticks>>

(* lines 521-532 for one listed record, up to the first write *)
monitor_examine ==
    /\ UNCHANGED <<monitoring_active, confidence_threshold, timing_profile>>
    /\ OutsideCorridor
    /\ ticker.pc = "scan"
    /\ ticker.queue # <<>>
    /\ LET e == Head(ticker.queue)
           rest == Tail(ticker.queue)
           id == e.signal_id
           rec == signal_states[id]
       IN  ticker' =
             IF e.raises THEN AfterRaise(rest)
             ELSE IF ~e.expired THEN AfterEntry(rest)
             ELSE IF e.is_emergency_override
             THEN IF RestoreError(rec) # "" THEN AfterEntry(rest)
                  ELSE [ticker EXCEPT !.pc = "restore", !.queue = rest,
                                      !.signal_id = id, !.cur = CurrentRef]
             ELSE IF ~TimingUsable(rec.normal_timing) THEN AfterEntry(rest)
                  ELSE [ticker EXCEPT
                          !.pc = "trans", !.queue = rest, !.signal_id = id, !.cur = CurrentRef,
                          !.next_state = NextState(rec.current_state),
                          !.next_duration = NextDuration(rec.current_state,
                                                         TimingOf(rec.normal_timing))]
    /\ last' = NoReturn
    /\ redis_error' = FALSE
    /\ UNCHANGED <<signal_states, order, handlers, nreq, nticks>>

(* _transition_to_next_state, lines 559-566 *)
monitor_transition ==
    /\ UNCHANGED <<monitoring_active, confidence_threshold, timing_profile>>
    /\ OutsideCorridor
    /\ ticker.pc = "trans"
    /\ Replace(ticker.signal_id,
               TransitionState(ticker.next_state, ticker.next_duration,
                               NormalTimingOf(ticker.cur, ticker.signal_id)))
    /\ ticker' = AfterEntry(ticker.queue)
    /\ handlers' = [h \in Handlers |-> Detached(handlers[h], ticker.signal_id)]
    /\ last' = NoReturn
    /\ \E redis_ok \in BOOLEAN : redis_error' = ~redis_ok
    /\ UNCHANGED <<order, nreq, nticks>>

(* restore_normal_operation called from line 529, lines 192-213 *)
monitor_restore ==
    /\ UNCHANGED <<monitoring_active, confidence_threshold, timing_profile>>
    /\ OutsideCorridor
    /\ ticker.pc = "restore"
    /\ Replace(ticker.signal_id, RestoreState(NormalTimingOf(ticker.cur, ticker.signal_id)))
    /\ ticker' = AfterEntry(ticker.queue)
    /\ handlers' = [h \in Handlers |-> Detached(handlers[h], ticker.signal_id)]
    /\ last' = NoReturn
    /\ \E redis_ok \in BOOLEAN : redis_error' = ~redis_ok
    /\ UNCHANGED <<order, nreq, nticks>>

(***************************************************************************)
(* The request handlers.  Position of a handler thread: "idle", "create"   *)
(* (between the test of line 86 and the assignment of line 88), "ov_read"  *)
(* (before line 120), "ov_write" (between line 128 and line 131),          *)
(* "rs_write" (between line 189 and line 197), "ut_apply" (before line     *)
(* 253), "ut_write" (between line 274 and line 275).  last is the request  *)
(* that returned in the step just taken, with its result (NoReturn when no *)
(* request returned in that step).                                         *)
(***************************************************************************)
Request(op, id, d, r, cfg) ==
    [IdleHandler EXCEPT !.op = op, !.signal_id = id, !.duration = d, !.reason = r, !.cfg = cfg]

(* emergency_override, lines 120-128 *)
OverrideRead(h, req) ==
    LET id == req.signal_id
        rec == signal_states[id]
    IN  /\ handlers' = [handlers EXCEPT ![h] = [req EXCEPT !.pc = "ov_write", !.cur = CurrentRef]]
        /\ signal_states' =
             IF KeepsTiming(rec) THEN signal_states
             ELSE [signal_states EXCEPT ![id].normal_timing = OverrideSnapshot(rec)]
        /\ last' = NoReturn
        /\ redis_error' = FALSE
        /\ UNCHANGED <<order, ticker>>

(* update_timing, lines 253-274: the validation, then the read of line 274 *)
UpdateApply(h, req) ==
    LET id == req.signal_id
    IN  /\ IF TimingError(req.cfg) # ""
           THEN /\ handlers' = [handlers EXCEPT ![h] = IdleHandler]
                /\ last' = Returned("update_timing", id,
                                     Result(FALSE, "timing_updated", "", "", 0,
                                            TimingError(req.cfg)))
           ELSE /\ handlers' = [handlers EXCEPT ![h] =
                                  [req EXCEPT !.pc = "ut_write", !.cur = CurrentRef]]
                /\ last' = NoReturn
        /\ redis_error' = FALSE
        /\ UNCHANGED <<signal_states, order, ticker>>

(* lines 284-289: the success result of update_timing *)
UpdateResult(id, cfg) ==
    [Result(TRUE, "timing_updated", id, "", 0, "") EXCEPT !.new_timing = NewTiming(cfg)]

(* the test of line 86, then the body of the caller when the id is known *)
EmergencyOverride(h, req) ==
    IF Exists(req.signal_id) THEN OverrideRead(h, req)
    ELSE /\ handlers' = [handlers EXCEPT ![h] = [req EXCEPT !.pc = "create"]]
         /\ last' = NoReturn
         /\ redis_error' = FALSE
         /\ UNCHANGED <<signal_states, order, ticker>>

emergency_override_call(h) ==
    /\ UNCHANGED <<monitoring_active, confidence_threshold, timing_profile>>
    /\ OutsideCorridor
    /\ handlers[h].pc = "idle"
    /\ nreq < MaxRequests
    /\ nreq' = nreq + 1
    /\ UNCHANGED nticks
    /\ \E id \in SignalIds, a \in OverrideArgs :
         EmergencyOverride(h, Request("override", id, a.duration, a.reason, NoTiming))

update_timing_call(h) ==
    /\ UNCHANGED <<monitoring_active, confidence_threshold, timing_profile>>
    /\ OutsideCorridor
    /\ handlers[h].pc = "idle"
    /\ nreq < MaxRequests
    /\ nreq' = nreq + 1
    /\ UNCHANGED nticks
    /\ \E id \in SignalIds, cfg \in TimingConfigs :
         LET req == Request("update_timing", id, 0, "", cfg)
         IN  IF Exists(id) THEN UpdateApply(h, req)
             ELSE /\ handlers' = [handlers EXCEPT ![h] = [req EXCEPT !.pc = "create"]]
                  /\ last' = NoReturn
                  /\ redis_error' = FALSE
                  /\ UNCHANGED <<signal_states, order, ticker>>

(* _create_signal_if_not_exists, lines 88-94 *)
create_signal(h) ==
    /\ UNCHANGED <<monitoring_active, confidence_threshold, timing_profile>>
    /\ OutsideCorridor
    /\ handlers[h].pc = "create"
    /\ \E redis_ok \in BOOLEAN :
         LET id == handlers[h].signal_id
         IN  /\ Replace(id, NewSignalState)
             /\ order' = IF Exists(id) THEN order ELSE Append(order, id)
             /\ ticker' = Detached(ticker, id)
             /\ redis_error' = ~redis_ok
             /\ IF update_redis_state(redis_ok) = "raised"
                THEN /\ handlers' = [OtherHandlers(h, id) EXCEPT ![h] = IdleHandler]
                     /\ last' = Returned(handlers[h].op, id, ErrorResult(id))
                ELSE /\ handlers' = [OtherHandlers(h, id) EXCEPT ![h].pc =
                                       IF handlers[h].op = "override" THEN "ov_read"
                                       ELSE "ut_apply"]
                     /\ last' = NoReturn
    /\ UNCHANGED <<nreq, nticks>>

emergency_override_read(h) ==
    /\ UNCHANGED <<monitoring_active, confidence_threshold, timing_profile>>
    /\ OutsideCorridor
    /\ handlers[h].pc = "ov_read"
    /\ OverrideRead(h, handlers[h])
    /\ UNCHANGED <<nreq, nticks>>

(* emergency_override, lines 131-162 *)
emergency_override_write(h) ==
    /\ UNCHANGED <<monitoring_active, confidence_threshold, timing_profile>>
    /\ OutsideCorridor
    /\ handlers[h].pc = "ov_write"
    /\ \E redis_ok \in BOOLEAN :
         LET req == handlers[h]
         IN  /\ Replace(req.signal_id,
                        OverrideState(req.duration, req.reason,
                                      NormalTimingOf(req.cur, req.signal_id)))
             /\ handlers' = [OtherHandlers(h, req.signal_id) EXCEPT ![h] = IdleHandler]
             /\ ticker' = Detached(ticker, req.signal_id)
             /\ redis_error' = ~redis_ok
             /\ last' = Returned("override", req.signal_id,
                                 IF MirrorRaises(redis_ok) THEN ErrorResult(req.signal_id)
                                 ELSE OverrideResult(req.signal_id, req.duration))
    /\ UNCHANGED <<order, nreq, nticks>>

(* variant: the update also restarts the phase of the signal *)
ApplyTiming_Restart(rec, cfg) ==
    [rec EXCEPT !.normal_timing = NewTiming(cfg), !.elapsed = 0]

(* line 275: current_state.normal_timing = asdict(new_timing) *)
ApplyTiming(rec, cfg) ==
    [rec EXCEPT !.normal_timing = NewTiming(cfg)]

(* update_timing, lines 275-289: normal_timing of the object read at line 274
   is assigned.  When that object was replaced in the dict in the meantime,
   the assignment goes to the object that was taken out and the dict does
   not show it. *)
update_timing_write(h) ==
    /\ UNCHANGED <<monitoring_active, confidence_threshold>>
    /\ OutsideCorridor
    /\ handlers[h].pc = "ut_write"
    /\ \E redis_ok \in BOOLEAN :
         LET req == handlers[h]
             id == req.signal_id
         IN  /\ signal_states' =
                  IF req.cur.attached
                  THEN [signal_states EXCEPT ![id] = ApplyTiming(@, req.cfg)]
                  ELSE signal_states
             /\ handlers' = [handlers EXCEPT ![h] = IdleHandler]
             /\ redis_error' = ~redis_ok
             /\ last' = Returned("update_timing", id,
                                 IF MirrorRaises(redis_ok) THEN ErrorResult(id)
                                 ELSE UpdateResult(id, req.cfg))
             /\ timing_profile' = [timing_profile EXCEPT
                                     ![id] = IF MirrorRaises(redis_ok) THEN @
                                             ELSE NewTiming(req.cfg)]
    /\ UNCHANGED <<order, ticker, nreq, nticks>>

update_timing_apply(h) ==
    /\ UNCHANGED <<monitoring_active, confidence_threshold, timing_profile>>
    /\ OutsideCorridor
    /\ handlers[h].pc = "ut_apply"
    /\ UpdateApply(h, handlers[h])
    /\ UNCHANGED <<nreq, nticks>>

(* restore_normal_operation, lines 183-194 *)
restore_normal_operation_call(h) ==
    /\ UNCHANGED <<monitoring_active, confidence_threshold, timing_profile>>
    /\ OutsideCorridor
    /\ handlers[h].pc = "idle"
    /\ nreq < MaxRequests
    /\ nreq' = nreq + 1
    /\ UNCHANGED nticks
    /\ \E id \in SignalIds :
         IF RestoreError(signal_states[id]) # ""
         THEN /\ last' = Returned("restore", id,
                                  Result(FALSE, "restore_normal", "", "", 0,
                                         RestoreError(signal_states[id])))
              /\ redis_error' = FALSE
              /\ UNCHANGED <<signal_states, order, ticker, handlers>>
         ELSE /\ handlers' = [handlers EXCEPT ![h] =
                                [Request("restore", id, 0, "", NoTiming)
                                   EXCEPT !.pc = "rs_write", !.cur = CurrentRef]]
              /\ last' = NoReturn
              /\ redis_error' = FALSE
              /\ UNCHANGED <<signal_states, order, ticker>>

(* restore_normal_operation, lines 192-231 *)
restore_normal_operation_write(h) ==
    /\ UNCHANGED <<monitoring_active, confidence_threshold, timing_profile>>
    /\ OutsideCorridor
    /\ handlers[h].pc = "rs_write"
    /\ \E redis_ok \in BOOLEAN :
         LET req == handlers[h]
             nt == NormalTimingOf(req.cur, req.signal_id)
         IN  /\ Replace(req.signal_id, RestoreState(nt))
             /\ handlers' = [OtherHandlers(h, req.signal_id) EXCEPT ![h] = IdleHandler]
             /\ ticker' = Detached(ticker, req.signal_id)
             /\ redis_error' = ~redis_ok
             /\ last' = Returned("restore", req.signal_id,
                                 IF MirrorRaises(redis_ok) THEN ErrorResult(req.signal_id)
                                 ELSE RestoreResult(req.signal_id, nt,
                                                    RestoreState(nt).current_state))
    /\ UNCHANGED <<order, nreq, nticks>>

(***************************************************************************)
(* coordinate_green_corridor.  Position of its handler thread: "co_create" *)
(* (between the test of line 86 and the assignment of line 88, for         *)
(* route_signals[i]), "co_ensure" (before the test of line 86 for          *)
(* route_signals[i]), "co_exec" (before plan entry i in the loop of line   *)
(* 340), "co_write" (inside emergency_override for plan entry i, between   *)
(* line 128 and line 131).  waited is utcnow() - start_time (line 314).    *)
(***************************************************************************)
RECURSIVE FirstUnknown(_, _)

(* variant: only the first signal of the route is ensured *)
FirstUnknown_FirstOnly(route_signals, i) ==
    IF i = 1 /\ ~Exists(route_signals[1]) THEN 1 ELSE Len(route_signals) + 1

(* lines 319-321: the first position from i on whose id is not in the dict *)
FirstUnknown(route_signals, i) ==
    IF i > Len(route_signals) \/ ~Exists(route_signals[i]) THEN i
    ELSE FirstUnknown(route_signals, i + 1)

(* line 347: the reason of the immediate override names the route's length *)
CorridorReason(route_signals) ==
    IF Len(route_signals) = 1 THEN "Green corridor coordination - Signal 1 of 1"
    ELSE IF Len(route_signals) = 2 THEN "Green corridor coordination - Signal 1 of 2"
    ELSE IF Len(route_signals) = 3 THEN "Green corridor coordination - Signal 1 of 3"
    ELSE "Green corridor coordination - Signal 1 of 4"

(* lines 358-364 *)
WithResult(req, id, ok, err) ==
    IF ok
    THEN [req EXCEPT !.successful_coordinates = Append(@, id)]
    ELSE [req EXCEPT !.failed_coordinates = Append(@, [signal_id |-> id, error |-> err])]

(* _schedule_signal_override, lines 398-405: the key holds the id and the
   start second, the value the duration *)
(* variant: the trigger is due at once *)
ScheduledOverride_Now(plan, waited) ==
    [signal_id |-> plan.signal_id, due_in |-> 0, duration |-> plan.green_duration]

ScheduledOverride(plan, waited) ==
    [signal_id |-> plan.signal_id,
     due_in |-> Max(0, plan.delay_from_start - waited),
     duration |-> plan.green_duration]

(* line 407: setex replaces the value of a key that exists *)
Setex(entry) ==
    {e \in scheduled : ~(e.signal_id = entry.signal_id /\ e.due_in = entry.due_in)}
        \cup {entry}

(* lines 367-384 after the last plan entry, the next plan entry otherwise *)
CoordinateContinue(h, req) ==
    LET plan == req.coordination_plan
    IN  IF req.i >= Len(plan)
        THEN /\ handlers' = [handlers EXCEPT ![h] = IdleHandler]
             /\ corridor' = CorridorResult("returned", req.route_signals, req.total_duration,
                                            plan, req.successful_coordinates,
                                            req.failed_coordinates)
             /\ last' = Returned("coordinate", "",
                                 Result(Len(req.successful_coordinates) > 0, "green_corridor",
                                        "", "", req.total_duration, ""))
        ELSE /\ handlers' = [handlers EXCEPT ![h] =
                               [req EXCEPT !.pc = "co_exec", !.i = req.i + 1,
                                           !.signal_id = "", !.cur = NoRef]]
             /\ corridor' = NoCorridor
             /\ last' = NoReturn

(* lines 340-356 for plan entry req.i: emergency_override up to line 128 when
   its delay is 0, _schedule_signal_override otherwise *)
CoordinateExecute(h, req) ==
    LET plan == req.coordination_plan
    IN  IF plan = <<>>
        THEN /\ CoordinateContinue(h, req)
             /\ redis_error' = FALSE
             /\ UNCHANGED <<signal_states, scheduled>>
        ELSE IF plan[req.i].delay_from_start = 0
        THEN LET id == plan[req.i].signal_id
                 rec == signal_states[id]
             IN  /\ handlers' = [handlers EXCEPT ![h] =
                                   [req EXCEPT !.pc = "co_write", !.signal_id = id,
                                               !.duration = plan[req.i].green_duration,
                                               !.reason = CorridorReason(req.route_signals),
                                               !.cur = CurrentRef]]
                 /\ signal_states' =
                      IF KeepsTiming(rec) THEN signal_states
                      ELSE [signal_states EXCEPT ![id].normal_timing = OverrideSnapshot(rec)]
                 /\ corridor' = NoCorridor
                 /\ last' = NoReturn
                 /\ redis_error' = FALSE
                 /\ UNCHANGED scheduled
        ELSE \E redis_ok \in BOOLEAN :
                 /\ scheduled' = IF redis_ok
                                  THEN Setex(ScheduledOverride(plan[req.i], req.waited))
                                  ELSE scheduled
                 /\ CoordinateContinue(h, WithResult(req, plan[req.i].signal_id, redis_ok,
                                                      "redis"))
                 /\ redis_error' = ~redis_ok
                 /\ UNCHANGED signal_states

(* lines 319-321 from position req.i on, then the loop of line 340 *)
CoordinateEnsure(h, req) ==
    LET j == FirstUnknown(req.route_signals, req.i)
    IN  IF j <= Len(req.route_signals)
        THEN /\ handlers' = [handlers EXCEPT ![h] = [req EXCEPT !.pc = "co_create", !.i = j]]
             /\ corridor' = NoCorridor
             /\ last' = NoReturn
             /\ redis_error' = FALSE
             /\ UNCHANGED <<signal_states, scheduled>>
        ELSE CoordinateExecute(h, [req EXCEPT !.i = 1])

(* lines 310-321; the list coordination_plan of lines 314-336 depends on the
   arguments alone and is held by the handler from the call on *)
coordinate_green_corridor_call(h, calls) ==
    /\ UNCHANGED <<monitoring_active, confidence_threshold, timing_profile>>
    /\ handlers[h].pc = "idle"
    /\ nreq < MaxRequests
    /\ nreq' = nreq + 1
    /\ \E c \in calls :
         IF c.route_signals = <<>>
         THEN /\ last' = Returned("coordinate", "",
                                  Result(FALSE, "green_corridor", "", "", c.duration,
                                         "No signals provided"))
              /\ corridor' = CorridorResult("returned", <<>>, c.duration, <<>>, <<>>, <<>>)
              /\ redis_error' = FALSE
              /\ UNCHANGED <<signal_states, scheduled, handlers>>
         ELSE CoordinateEnsure(h, [IdleHandler EXCEPT !.op = "coordinate",
                                                      !.route_signals = c.route_signals,
                                                      !.total_duration = c.duration,
                                                      !.coordination_plan =
                                                          coordination_plan(c.route_signals,
                                                                            c.duration),
                                                      !.i = 1])
    /\ UNCHANGED <<order, ticker, nticks>>

(* _create_signal_if_not_exists, lines 88-94, called from line 321 *)
coordinate_create_signal(h) ==
    /\ UNCHANGED <<monitoring_active, confidence_threshold, timing_profile>>
    /\ handlers[h].pc = "co_create"
    /\ \E redis_ok \in BOOLEAN :
         LET id == handlers[h].route_signals[handlers[h].i]
         IN  /\ Replace(id, NewSignalState)
             /\ order' = IF Exists(id) THEN order ELSE Append(order, id)
             /\ ticker' = Detached(ticker, id)
             /\ redis_error' = ~redis_ok
             /\ IF update_redis_state(redis_ok) = "raised"
                THEN /\ handlers' = [OtherHandlers(h, id) EXCEPT ![h] = IdleHandler]
                     /\ last' = Returned("coordinate", "",
                                         Result(FALSE, "green_corridor", "", "",
                                                handlers[h].total_duration, "redis"))
                ELSE /\ handlers' = [OtherHandlers(h, id) EXCEPT ![h].pc = "co_ensure",
                                                                  ![h].i = handlers[h].i + 1]
                     /\ last' = NoReturn
    /\ OutsideCorridor
    /\ UNCHANGED <<nreq, nticks>>

coordinate_ensure_signals(h) ==
    /\ UNCHANGED <<monitoring_active, confidence_threshold, timing_profile>>
    /\ handlers[h].pc = "co_ensure"
    /\ CoordinateEnsure(h, handlers[h])
    /\ UNCHANGED <<order, ticker, nreq, nticks>>

coordinate_execute(h) ==
    /\ UNCHANGED <<monitoring_active, confidence_threshold, timing_profile>>
    /\ handlers[h].pc = "co_exec"
    /\ CoordinateExecute(h, handlers[h])
    /\ UNCHANGED <<order, ticker, nreq, nticks>>

(* emergency_override called from line 344, lines 131-162, then lines 358-359 *)
coordinate_override_write(h) ==
    /\ UNCHANGED <<monitoring_active, confidence_threshold, timing_profile>>
    /\ handlers[h].pc = "co_write"
    /\ \E redis_ok \in BOOLEAN :
       LET req == handlers[h]
           id == req.signal_id
       IN  /\ Replace(id, OverrideState(req.duration, req.reason, NormalTimingOf(req.cur, id)))
           /\ ticker' = Detached(ticker, id)
           /\ redis_error' = ~redis_ok
           /\ \E others \in {OtherHandlers(h, id)} :
                LET done == WithResult(req, id, ~MirrorRaises(redis_ok), "redis")
                    plan == req.coordination_plan
                IN  IF req.i >= Len(plan)
                    THEN /\ handlers' = [others EXCEPT ![h] = IdleHandler]
                         /\ corridor' = CorridorResult("returned", req.route_signals,
                                                        req.total_duration, plan,
                                                        done.successful_coordinates,
                                                        done.failed_coordinates)
                         /\ last' = Returned("coordinate", "",
                                             Result(Len(done.successful_coordinates) > 0,
                                                    "green_corridor", "", "",
                                                    req.total_duration, ""))
                    ELSE /\ handlers' = [others EXCEPT ![h] =
                                           [done EXCEPT !.pc = "co_exec", !.i = req.i + 1,
                                                        !.signal_id = "", !.cur = NoRef]]
                         /\ corridor' = NoCorridor
                         /\ last' = NoReturn
    /\ UNCHANGED <<order, nreq, nticks, scheduled>>

(***************************************************************************)
(* The routes of main.py that reach the controller, and the calls a        *)
(* process that holds the controller makes on it.  A handler of the        *)
(* detection route is at "dt_classified" between the detector's answer     *)
(* (line 75) and the test of line 77.                                      *)
(***************************************************************************)
(* POST /api/signals/<signal_id>/override, main.py lines 146-157 *)
override_signal(h) ==
    /\ UNCHANGED <<monitoring_active, confidence_threshold, timing_profile>>
    /\ OutsideCorridor
    /\ handlers[h].pc = "idle"
    /\ nreq < MaxRequests
    /\ nreq' = nreq + 1
    /\ UNCHANGED nticks
    /\ \E id \in SignalIds, duration \in JsonDurations :
         EmergencyOverride(h, [Request("override", id, duration, "Manual override", NoTiming)
                                 EXCEPT !.endpoint = "override_signal"])

(* POST /api/detect/vehicle, main.py lines 66-75 *)
detect_emergency_vehicle(h) ==
    /\ UNCHANGED <<monitoring_active, confidence_threshold, timing_profile>>
    /\ OutsideCorridor
    /\ handlers[h].pc = "idle"
    /\ nreq < MaxRequests
    /\ nreq' = nreq + 1
    /\ \E id \in SignalIds, is_emergency \in BOOLEAN :
         handlers' = [handlers EXCEPT ![h] =
                        [IdleHandler EXCEPT !.pc = "dt_classified", !.signal_id = id,
                                            !.endpoint = "detect_emergency_vehicle",
                                            !.is_emergency = is_emergency]]
    /\ last' = NoReturn
    /\ redis_error' = FALSE
    /\ UNCHANGED <<signal_states, order, ticker, nticks>>

(* DatabaseManager.log_emergency_detection, database.py lines 247-282: the
   except clause logs, rolls back and raises again *)
log_emergency_detection(db_ok) == IF db_ok THEN "logged" ELSE "raised"

(* the responses of the detection route: lines 102-106, and lines 109-111 *)
NoEmergencyResponse(id) == Result(TRUE, "No emergency vehicle detected", id, "", 0, "")

InternalServerError(id) == Result(FALSE, "", id, "", 0, "Internal server error")

(* main.py lines 77-89 and 101-111 *)
detect_log_and_override(h) ==
    /\ UNCHANGED <<monitoring_active, confidence_threshold, timing_profile>>
    /\ OutsideCorridor
    /\ handlers[h].pc = "dt_classified"
    /\ UNCHANGED <<nreq, nticks>>
    /\ LET req == handlers[h]
       IN  IF ~req.is_emergency
           THEN /\ handlers' = [handlers EXCEPT ![h] = IdleHandler]
                /\ last' = Returned("detect", req.signal_id, NoEmergencyResponse(req.signal_id))
                /\ redis_error' = FALSE
                /\ UNCHANGED <<signal_states, order, ticker>>
           ELSE \E db_ok \in BOOLEAN :
                  IF log_emergency_detection(db_ok) = "raised"
                  THEN /\ handlers' = [handlers EXCEPT ![h] = IdleHandler]
                       /\ last' = Returned("detect", req.signal_id,
                                           InternalServerError(req.signal_id))
                       /\ redis_error' = FALSE
                       /\ UNCHANGED <<signal_states, order, ticker>>
                  ELSE EmergencyOverride(h, [req EXCEPT
                                               !.op = "override",
                                               !.duration = emergency_override_duration,
                                               !.reason = "Emergency vehicle detected"])

(***************************************************************************)
(* get_signal_status, lines 427-449.  The clock is read at line 434, late  *)
(* tenths of a second after the moment the record's elapsed stands for;    *)
(* the arithmetic is done in tenths of a second.  int() truncates towards  *)
(* zero.                                                                   *)
(***************************************************************************)
Lateness == {0, 5, 25}

(* variant: line 435 without max(0, ...) *)
remaining_NoFloor(rec, late) == 10 * rec.remaining_time - (10 * rec.elapsed + late)

remaining(rec, late) == Max(0, 10 * rec.remaining_time - (10 * rec.elapsed + late))

int(tenths) == IF tenths >= 0 THEN tenths \div 10 ELSE 0 - ((0 - tenths) \div 10)

StatusError(err) ==
    [error |-> err, signal_id |-> "", current_state |-> "", remaining_time |-> 0,
     is_emergency_override |-> FALSE, override_reason |-> ""]

SignalStatus(id, late) ==
    LET state == signal_states[id]
    IN  IF ~Exists(id) THEN StatusError("Signal not found")
        ELSE IF ~IsNumber(state.remaining_time) THEN StatusError("TypeError")
        ELSE [error |-> "", signal_id |-> id, current_state |-> state.current_state,
              remaining_time |-> int(remaining(state, late)),
              is_emergency_override |-> state.is_emergency_override,
              override_reason |-> state.override_reason]

(* variant: a query for an unknown id creates its record first *)
get_signal_status_Creating(h) ==
    /\ UNCHANGED <<monitoring_active, confidence_threshold, timing_profile>>
    /\ OutsideCorridor
    /\ handlers[h].pc = "idle"
    /\ nreq < MaxRequests
    /\ nreq' = nreq + 1
    /\ \E id \in SignalIds, late \in Lateness :
         /\ last' = Returned("status", id, SignalStatus(id, late))
         /\ signal_states' = IF Exists(id) THEN signal_states
                             ELSE [signal_states EXCEPT ![id] = NewSignalState]
    /\ redis_error' = FALSE
    /\ UNCHANGED <<order, ticker, handlers, nticks>>

get_signal_status(h) ==
    /\ UNCHANGED <<monitoring_active, confidence_threshold, timing_profile>>
    /\ OutsideCorridor
    /\ handlers[h].pc = "idle"
    /\ nreq < MaxRequests
    /\ nreq' = nreq + 1
    /\ \E id \in SignalIds, late \in Lateness :
         last' = Returned("status", id, SignalStatus(id, late))
    /\ redis_error' = FALSE
    /\ UNCHANGED <<signal_states, order, ticker, handlers, nticks>>

(* get_all_signals_status, lines 454-466: get_signal_status of every key of
   the dict, the number of keys, and the number of statuses that show the
   override flag (an error status shows none) *)
AllSignalsStatus(late) ==
    LET keys == {s \in SignalIds : Exists(s)}
        all_status == [s \in keys |-> SignalStatus(s, late)]
    IN  [signals |-> all_status,
         total_signals |-> Cardinality(keys),
         emergency_overrides_active |->
             Cardinality({s \in keys : all_status[s].is_emergency_override})]

get_all_signals_status(h) ==
    /\ UNCHANGED <<monitoring_active, confidence_threshold, timing_profile>>
    /\ OutsideCorridor
    /\ handlers[h].pc = "idle"
    /\ nreq < MaxRequests
    /\ nreq' = nreq + 1
    /\ \E late \in Lateness :
         last' = Returned("all_status", "", AllSignalsStatus(late))
    /\ redis_error' = FALSE
    /\ UNCHANGED <<signal_states, order, ticker, handlers, nticks>>

(* optimize_signal_timing, lines 771-796.  The three algorithms compute a
   timing from the traffic or emergency data alone and read no signal record;
   the timing they return is not applied to any signal and its numbers are
   not represented here.  An algorithm that is not registered yields the
   default timing of lines 749-755. *)
Algorithms == {"webster", "adaptive", "emergency_priority", "genetic"}

optimization_algorithms == {"webster", "adaptive", "emergency_priority"}

OptimizeResult(id, algorithm) ==
    IF algorithm \notin optimization_algorithms
    THEN [algorithm |-> "default", green_duration |-> green_duration,
          red_duration |-> default_red_duration, yellow_duration |-> 5,
          cycle_time |-> green_duration + default_red_duration + 5]
    ELSE [success |-> TRUE, signal_id |-> id, algorithm |-> algorithm]

optimize_signal_timing(h) ==
    /\ UNCHANGED <<monitoring_active, confidence_threshold, timing_profile>>
    /\ OutsideCorridor
    /\ handlers[h].pc = "idle"
    /\ nreq < MaxRequests
    /\ nreq' = nreq + 1
    /\ \E id \in SignalIds, algorithm \in Algorithms, redis_ok \in BOOLEAN :
         /\ last' = Returned("optimize", id, OptimizeResult(id, algorithm))
         /\ redis_error' = (algorithm \in optimization_algorithms /\ ~redis_ok)
    /\ UNCHANGED <<signal_states, order, ticker, handlers, nticks>>

(* shutdown, lines 576-579: the flag is cleared and the caller waits at most
   5 s for the monitor thread *)
shutdown ==
    /\ monitoring_active
    /\ monitoring_active' = FALSE
    /\ UNCHANGED <<confidence_threshold, timing_profile>>
    /\ OutsideCorridor
    /\ last' = NoReturn
    /\ redis_error' = FALSE
    /\ UNCHANGED <<signal_states, order, ticker, handlers, nreq, nticks>>

Next ==
    \/ Tick
    \/ monitor_begin_pass
    \/ monitor_examine
    \/ monitor_transition
    \/ monitor_restore
    \/ \E h \in Handlers : emergency_override_call(h)
    \/ \E h \in Handlers : create_signal(h)
    \/ \E h \in Handlers : emergency_override_read(h)
    \/ \E h \in Handlers : emergency_override_write(h)
    \/ \E h \in Handlers : restore_normal_operation_call(h)
    \/ \E h \in Handlers : restore_normal_operation_write(h)
    \/ \E h \in Handlers : update_timing_call(h)
    \/ \E h \in Handlers : update_timing_apply(h)
    \/ \E h \in Handlers : update_timing_write(h)
    \/ \E h \in Handlers : coordinate_green_corridor_call(h, CorridorCalls)
    \/ \E h \in Handlers : coordinate_create_signal(h)
    \/ \E h \in Handlers : coordinate_ensure_signals(h)
    \/ \E h \in Handlers : coordinate_execute(h)
    \/ \E h \in Handlers : coordinate_override_write(h)

Spec == Init /\ [][Next]_vars

(***************************************************************************)
(* The behaviours in which the requests arrive one after the other (one    *)
(* handler thread serves them all) while the monitor thread runs: those in *)
(* which the clients send only override requests, and those in which they  *)
(* send only corridor requests, over longer routes.                        *)
(***************************************************************************)
Serving == {"h1"}

SerialNext ==
    \/ Tick
    \/ monitor_begin_pass
    \/ monitor_examine
    \/ monitor_transition
    \/ monitor_restore
    \/ \E h \in Serving : emergency_override_call(h)
    \/ \E h \in Serving : create_signal(h)
    \/ \E h \in Serving : emergency_override_read(h)
    \/ \E h \in Serving : emergency_override_write(h)

CorridorNext ==
    \/ Tick
    \/ monitor_begin_pass
    \/ monitor_examine
    \/ monitor_transition
    \/ monitor_restore
    \/ \E h \in Serving : coordinate_green_corridor_call(h, LongCorridorCalls)
    \/ \E h \in Serving : coordinate_create_signal(h)
    \/ \E h \in Serving : coordinate_ensure_signals(h)
    \/ \E h \in Serving : coordinate_execute(h)
    \/ \E h \in Serving : coordinate_override_write(h)

CorridorSpec == Init /\ [][CorridorNext]_vars

ShortCorridorNext ==
    \/ Tick
    \/ monitor_begin_pass
    \/ monitor_examine
    \/ monitor_transition
    \/ monitor_restore
    \/ \E h \in Serving : coordinate_green_corridor_call(h, ShortCorridorCalls)
    \/ \E h \in Serving : coordinate_create_signal(h)
    \/ \E h \in Serving : coordinate_ensure_signals(h)
    \/ \E h \in Serving : coordinate_execute(h)
    \/ \E h \in Serving : coordinate_override_write(h)

ShortCorridorSpec == Init /\ [][ShortCorridorNext]_vars

(***************************************************************************)
(* Fairness of the scheduling: the monitor thread is a daemon loop that    *)
(* keeps running, a request handler that was entered runs to its return,   *)
(* and the clock advances.  Requests themselves need not arrive, so a      *)
(* fair behaviour of the serial system is a fair behaviour of the whole.   *)
(***************************************************************************)
Fairness ==
    /\ WF_vars(Tick)
    /\ WF_vars(\/ monitor_begin_pass
               \/ monitor_examine
               \/ monitor_transition
               \/ monitor_restore)
    /\ \A h \in Serving :
         WF_vars(\/ create_signal(h)
                 \/ emergency_override_read(h)
                 \/ emergency_override_write(h)
                 \/ coordinate_create_signal(h)
                 \/ coordinate_ensure_signals(h)
                 \/ coordinate_execute(h)
                 \/ coordinate_override_write(h))

FairSpec == Init /\ [][SerialNext]_vars /\ Fairness

FairCorridorSpec == Init /\ [][CorridorNext]_vars /\ Fairness

(***************************************************************************)
(* The behaviours in which the requests arrive one after the other through *)
(* the routes of main.py, clients ask for the status of signals, and the   *)
(* controller may be shut down.                                            *)
(***************************************************************************)
EndpointNext ==
    \/ Tick
    \/ monitor_begin_pass
    \/ monitor_examine
    \/ monitor_transition
    \/ monitor_restore
    \/ shutdown
    \/ \E h \in Serving : override_signal(h)
    \/ \E h \in Serving : detect_emergency_vehicle(h)
    \/ \E h \in Serving : detect_log_and_override(h)
    \/ \E h \in Serving : get_signal_status(h)
    \/ \E h \in Serving : create_signal(h)
    \/ \E h \in Serving : emergency_override_read(h)
    \/ \E h \in Serving : emergency_override_write(h)

EndpointSpec == Init /\ [][EndpointNext]_vars

FairEndpointSpec == Init /\ [][EndpointNext]_vars /\ Fairness

(***************************************************************************)
(* The behaviours in which clients override signals and query the          *)
(* controller (the status of one signal, of all signals, an optimized      *)
(* timing), one request after the other, while the monitor thread runs.    *)
(***************************************************************************)
QueryNext ==
    \/ Tick
    \/ monitor_begin_pass
    \/ monitor_examine
    \/ monitor_transition
    \/ monitor_restore
    \/ \E h \in Serving : emergency_override_call(h)
    \/ \E h \in Serving : create_signal(h)
    \/ \E h \in Serving : emergency_override_read(h)
    \/ \E h \in Serving : emergency_override_write(h)
    \/ \E h \in Serving : get_signal_status(h)
    \/ \E h \in Serving : get_all_signals_status(h)
    \/ \E h \in Serving : optimize_signal_timing(h)

QuerySpec == Init /\ [][QueryNext]_vars

(***************************************************************************)
(* EmergencyVehicleDetector.update_confidence_threshold, called with any   *)
(* float: values on a grid of hundredths below, inside and above [0, 1],   *)
(* and NaN, against which every comparison is false.  last holds the       *)
(* argument and the value returned.                                        *)
(***************************************************************************)
MinThreshold == 0 - 20
MaxThreshold == 120
NaN == 0 - 1000

Thresholds == (MinThreshold..MaxThreshold) \cup {NaN}

(* variant: the upper end of the range is not tested *)
InUnitRange_NoUpper(new_threshold) ==
    new_threshold # NaN /\ 0 <= new_threshold

(* line 408: 0.0 <= new_threshold <= 1.0 *)
InUnitRange(new_threshold) ==
    new_threshold # NaN /\ 0 <= new_threshold /\ new_threshold <= 100

ThresholdReturned(new_threshold, value) ==
    [op |-> "update_confidence_threshold", signal_id |-> "",
     result |-> [new_threshold |-> new_threshold, value |-> value]]

update_confidence_threshold ==
    /\ \E new_threshold \in Thresholds :
         IF InUnitRange(new_threshold)
         THEN /\ confidence_threshold' = new_threshold
              /\ last' = ThresholdReturned(new_threshold, TRUE)
         ELSE /\ confidence_threshold' = confidence_threshold
              /\ last' = ThresholdReturned(new_threshold, FALSE)
    /\ UNCHANGED <<signal_states, order, ticker, handlers, nreq, nticks, scheduled, corridor,
                   redis_error, monitoring_active, timing_profile>>

DetectorNext == update_confidence_threshold

DetectorSpec == Init /\ [][DetectorNext]_vars

(***************************************************************************)
(* RouteOptimizer.calculate_green_corridor, called with a route of 0 to    *)
(* MaxRouteLen signal ids and a vehicle speed.  Distances are in units of  *)
(* 100 m, times in tenths of a second; the speeds (km/h) divide 3600, so   *)
(* that the quotient of line 558 is exact on this grid.  last holds the    *)
(* arguments and the dict returned.                                        *)
(***************************************************************************)
(* _initialize_road_network, lines 168-209: the entries of the signals the
   routes below are made of *)
road_network ==
    [clock_tower |-> [connections |-> <<"paltan_bazaar", "gandhi_road", "chakrata_road">>,
                      distances |-> <<12, 8, 15>>],
     paltan_bazaar |-> [connections |-> <<"clock_tower", "rispana_bridge", "haridwar_road">>,
                        distances |-> <<12, 21, 18>>],
     gandhi_road |-> [connections |-> <<"clock_tower", "chakrata_road", "mussoorie_road">>,
                      distances |-> <<8, 11, 27>>]]

RouteSignalIds == {"clock_tower", "paltan_bazaar", "gandhi_road", "new_signal"}

VehicleSpeeds == {40, 120, 300}

OptimizerRoutes == UNION {[1..n -> RouteSignalIds] : n \in 0..MaxRouteLen}

(* list.index: the first position of id in connections *)
IndexOf(connections, id) ==
    CHOOSE k \in 1..Len(connections) :
        connections[k] = id /\ \A j \in 1..(k - 1) : connections[j] # id

(* lines 548-555 *)
Distance(prev_signal, signal_id) ==
    IF /\ prev_signal \in DOMAIN road_network
       /\ \E k \in 1..Len(road_network[prev_signal].connections) :
              road_network[prev_signal].connections[k] = signal_id
    THEN road_network[prev_signal].distances[
             IndexOf(road_network[prev_signal].connections, signal_id)]
    ELSE 15

(* line 558: (distance / vehicle_speed) * 3600 *)
travel_time(distance, vehicle_speed) == (distance * 3600) \div vehicle_speed

RECURSIVE current_time(_, _, _)

(* lines 531 and 559: current_time after the entry of position i (from 1) *)
current_time(route_signals, vehicle_speed, i) ==
    IF i <= 1 THEN 0
    ELSE current_time(route_signals, vehicle_speed, i - 1)
           + travel_time(Distance(route_signals[i - 1], route_signals[i]), vehicle_speed)

(* line 563: current_time - 10 *)
green_start_time(route_signals, vehicle_speed, i) ==
    current_time(route_signals, vehicle_speed, i) - 100

(* lines 534-540 and 561-567 *)
CorridorPlanEntry(route_signals, vehicle_speed, i) ==
    IF i = 1
    THEN [signal_id |-> route_signals[i], green_start_time |-> 0, green_duration |-> 600,
          action |-> "immediate_green"]
    ELSE [signal_id |-> route_signals[i],
          green_start_time |-> green_start_time(route_signals, vehicle_speed, i),
          green_duration |-> 600,
          travel_time_from_previous |->
              travel_time(Distance(route_signals[i - 1], route_signals[i]), vehicle_speed),
          action |-> "timed_green"]

(* lines 569-576 *)
GreenCorridor(route_signals, vehicle_speed) ==
    [success |-> TRUE,
     corridor_plan |-> [i \in 1..Len(route_signals) |->
                          CorridorPlanEntry(route_signals, vehicle_speed, i)],
     total_corridor_time |->
         current_time(route_signals, vehicle_speed, Len(route_signals)) + 600,
     signals_count |-> Len(route_signals),
     estimated_time_savings |-> Len(route_signals) * 300]

calculate_green_corridor ==
    /\ \E route_signals \in OptimizerRoutes, vehicle_speed \in VehicleSpeeds :
         last' = [op |-> "calculate_green_corridor", signal_id |-> "",
                  result |-> [route_signals |-> route_signals,
                              vehicle_speed |-> vehicle_speed,
                              value |-> GreenCorridor(route_signals, vehicle_speed)]]
    /\ UNCHANGED <<signal_states, order, ticker, handlers, nreq, nticks, scheduled, corridor,
                   redis_error, monitoring_active, confidence_threshold, timing_profile>>

OptimizerNext == calculate_green_corridor

OptimizerSpec == Init /\ [][OptimizerNext]_vars

(***************************************************************************)
(* The coordination plan as a function of its arguments: a call with a     *)
(* route of 1 to MaxRouteLen signal ids and a total duration from a range  *)
(* that reaches below 0 and above the 60 s cap, and the step that builds   *)
(* the plan.  The controller is not running.                               *)
(***************************************************************************)
Routes == UNION {[1..n -> SignalIds] : n \in 1..MaxRouteLen}

PlanDurations == (0 - 5)..MaxCorridorDuration

PlanInit ==
    /\ InitController
    /\ \E route_signals \in Routes, duration \in PlanDurations :
         corridor = CorridorResult("called", route_signals, duration, <<>>, <<>>, <<>>)

plan_green_corridor ==
    /\ UNCHANGED <<monitoring_active, confidence_threshold, timing_profile>>
    /\ corridor.pc = "called"
    /\ corridor' = [corridor EXCEPT
                      !.pc = "planned",
                      !.coordination_plan =
                          coordination_plan(corridor.route_signals, corridor.total_duration)]
    /\ UNCHANGED <<signal_states, order, ticker, handlers, nreq, nticks, last, scheduled,
                   redis_error>>

PlanNext == plan_green_corridor

PlanSpec == PlanInit /\ [][PlanNext]_vars

(***************************************************************************)
(* Steps, as seen from a pair of states.                                   *)
(***************************************************************************)
OverrideWrites(h) == handlers[h].pc = "ov_write" /\ handlers'[h].pc = "idle"
RestoreWrites(h) == handlers[h].pc = "rs_write" /\ handlers'[h].pc = "idle"
RestoreCalled(h) == handlers[h].pc = "idle" /\ handlers'[h].pc = "rs_write"
RestoreRefused == nreq' # nreq /\ last'.op = "restore"
TickerTransitions(s) == ticker.pc = "trans" /\ ticker'.pc # "trans" /\ ticker.signal_id = s
TickerRestores(s) == ticker.pc = "restore" /\ ticker'.pc # "restore" /\ ticker.signal_id = s
TickerEntersTransition == ticker.pc = "scan" /\ ticker'.pc = "trans"

Overridden(rec) == rec.is_emergency_override

(* now >= state_start_time + remaining_time *)
DeadlineReached(rec) == rec.elapsed >= rec.remaining_time

(***************************************************************************)
(* C1.  emergency_override(id, d, r) with d > 0, on a known signal in any  *)
(* phase and mode or on an unknown id, returns success with new_state      *)
(* green and duration d, and the record it leaves is GREEN, overridden,    *)
(* with remaining_time d, a fresh start time and reason r.                 *)
(***************************************************************************)
C1_OverrideYieldsGreen ==
    [][/\ \A h \in Handlers :
            (OverrideWrites(h) /\ handlers[h].duration > 0) =>
              LET req == handlers[h]
                  new == signal_states'[req.signal_id]
              IN  /\ last'.op = "override" /\ last'.signal_id = req.signal_id
                  /\ last'.result.success
                  /\ last'.result.new_state = "green"
                  /\ last'.result.duration = req.duration
                  /\ new.current_state = "green"
                  /\ new.is_emergency_override
                  /\ new.remaining_time = req.duration
                  /\ new.elapsed = 0
                  /\ new.override_reason = req.reason
       /\ (last'.op = "override" /\ last'.result.duration > 0) => last'.result.success
      ]_vars

(* an override has just returned on an id that was created for it *)
C1_Witness ==
    /\ last.op = "override"
    /\ last.result.success
    /\ last.result.duration > 0
    /\ \A i \in 1..Len(default_signals) : default_signals[i] # last.signal_id
    /\ signal_states[last.signal_id].current_state = "green"
    /\ signal_states[last.signal_id].is_emergency_override
    /\ signal_states[last.signal_id].remaining_time = last.result.duration

(***************************************************************************)
(* C2.  restore_normal_operation(id) on a signal whose override is active  *)
(* is never refused, returns success and leaves the signal YELLOW for the  *)
(* yellow clearance time with the override flag cleared: never RED, and    *)
(* never the phase or the remaining time saved before the override.  The   *)
(* same holds for the restore the ticker performs on expiry.               *)
(***************************************************************************)
RestoredToYellow(new) ==
    /\ new.current_state = "yellow"
    /\ ~new.is_emergency_override
    /\ new.remaining_time = yellow_duration
    /\ new.elapsed = 0
    /\ new.normal_timing = NoTiming

C2_RestoreYieldsYellow ==
    [][/\ \A h \in Handlers :
            RestoreWrites(h) =>
              /\ RestoredToYellow(signal_states'[handlers[h].signal_id])
              /\ last'.op = "restore"
              /\ last'.result.success
              /\ last'.result.new_state = "yellow"
       /\ \A s \in SignalIds : TickerRestores(s) => RestoredToYellow(signal_states'[s])
       /\ RestoreRefused => ~Overridden(signal_states[last'.signal_id])
      ]_vars

(* a restore has just returned success and the signal is in its clearance phase *)
C2_Witness ==
    /\ last.op = "restore"
    /\ last.result.success
    /\ signal_states[last.signal_id].current_state = "yellow"
    /\ signal_states[last.signal_id].written_by = "restore"
    /\ ~signal_states[last.signal_id].is_emergency_override

(***************************************************************************)
(* C5.  restore_normal_operation(id) on a signal that is not overridden,   *)
(* or on an id that was never created, returns a failure and changes       *)
(* nothing: no record of the dict changes and no record is created.  A     *)
(* restore that goes on to write was called on an overridden signal.       *)
(***************************************************************************)
C5_RestoreRefusedUnchanged ==
    [][/\ RestoreRefused =>
            /\ ~last'.result.success
            /\ last'.result.error \in {"Signal not found", "Signal is not in emergency override"}
            /\ signal_states' = signal_states
            /\ order' = order
       /\ \A h \in Handlers :
            RestoreCalled(h) =>
              /\ Exists(handlers'[h].signal_id)
              /\ Overridden(signal_states[handlers'[h].signal_id])
              /\ signal_states' = signal_states
      ]_vars

(* a restore was just refused on an id that is not in the dict *)
C5_Witness ==
    /\ last.op = "restore"
    /\ ~last.result.success
    /\ last.result.error = "Signal not found"
    /\ ~Exists(last.signal_id)

(***************************************************************************)
(* C3.  No signal goes directly from GREEN to RED: the record that         *)
(* replaces a GREEN record is never RED, whatever the interleaving of the  *)
(* handlers with the ticker and with each other.                           *)
(***************************************************************************)
C3_NoGreenToRed ==
    [][\A s \in SignalIds :
          signal_states[s].current_state = "green" => signal_states'[s].current_state # "red"
      ]_vars

(***************************************************************************)
(* C4.  A ticker transition computed from an earlier record never          *)
(* overwrites an override that has not reached its deadline: after the     *)
(* ticker's write the signal is still GREEN with the override flag set.    *)
(***************************************************************************)
C4_OverrideSurvivesTransition ==
    [][\A s \in SignalIds :
          (TickerTransitions(s) /\ Overridden(signal_states[s]) /\ ~DeadlineReached(signal_states[s]))
            => /\ Overridden(signal_states'[s])
               /\ signal_states'[s].current_state = "green"
      ]_vars

(***************************************************************************)
(* C6.  The ticker ends an override whose deadline has passed by making    *)
(* the signal YELLOW with the flag cleared, and no step of the ticker      *)
(* takes a signal out of an override whose deadline has not passed: until  *)
(* then the signal stays GREEN with the flag set.                          *)
(***************************************************************************)
C6_OverrideEndsAtDeadline ==
    [][\A s \in SignalIds :
          /\ TickerRestores(s) =>
               signal_states'[s].current_state = "yellow" /\ ~Overridden(signal_states'[s])
          /\ ((TickerTransitions(s) \/ TickerRestores(s))
                /\ Overridden(signal_states[s]) /\ ~DeadlineReached(signal_states[s]))
               => /\ Overridden(signal_states'[s])
                  /\ signal_states'[s].current_state = "green"
      ]_vars

(***************************************************************************)
(* C7.  A ticker transition follows the cycle RED, GREEN, YELLOW, RED from *)
(* the phase of the record it replaces, and the phase entered gets that    *)
(* phase's duration from the timing profile of the record the ticker read  *)
(* (30/5/45 when that record has no profile), a fresh start time and no    *)
(* override flag.                                                          *)
(***************************************************************************)
ConfiguredDuration(rec, phase) ==
    IF phase = "green"
    THEN (IF rec.normal_timing.kind = "timing" THEN rec.normal_timing.green_duration ELSE 30)
    ELSE IF phase = "yellow"
    THEN (IF rec.normal_timing.kind = "timing" THEN rec.normal_timing.yellow_duration ELSE 5)
    ELSE (IF rec.normal_timing.kind = "timing" THEN rec.normal_timing.red_duration ELSE 45)

C7_TransitionFollowsCycle ==
    [][/\ \A s \in SignalIds :
            TickerTransitions(s) =>
              LET old == signal_states[s]
                  new == signal_states'[s]
              IN  /\ ticker.cur.attached =>
                       <<old.current_state, new.current_state>> \in
                          {<<"red", "green">>, <<"green", "yellow">>, <<"yellow", "red">>}
                  /\ new.current_state = ticker.next_state
                  /\ new.remaining_time = ticker.next_duration
                  /\ new.elapsed = 0
                  /\ ~new.is_emergency_override
       /\ TickerEntersTransition =>
            LET read == signal_states[ticker'.signal_id]
            IN  /\ <<read.current_state, ticker'.next_state>> \in
                      {<<"red", "green">>, <<"green", "yellow">>, <<"yellow", "red">>}
                /\ ticker'.next_duration = ConfiguredDuration(read, ticker'.next_state)
      ]_vars

(* the ticker has moved a signal with a profile set by update_timing to GREEN *)
C7_Witness ==
    \E s \in SignalIds, cfg \in TimingConfigs :
        /\ signal_states[s].written_by = "ticker"
        /\ signal_states[s].current_state = "green"
        /\ signal_states[s].normal_timing = NewTiming(cfg)
        /\ cfg.red_duration.is_int /\ cfg.yellow_duration.is_int /\ cfg.green_duration.is_int
        /\ signal_states[s].remaining_time = cfg.green_duration.value
        /\ cfg.green_duration.value # green_duration

(***************************************************************************)
(* C8.  A record the ticker has written by a transition is not changed by  *)
(* the ticker again before the duration of the phase it entered has        *)
(* elapsed: a further pass at the same time, or at any time inside the     *)
(* window, leaves it alone.                                                *)
(***************************************************************************)
C8_OneTransitionPerWindow ==
    [][\A s \in SignalIds :
          (TickerTransitions(s) \/ TickerRestores(s)) =>
             ~(signal_states[s].written_by = "ticker" /\ ~DeadlineReached(signal_states[s]))
      ]_vars

(* a further pass has listed, as not due, a record the ticker wrote *)
C8_Witness ==
    /\ ticker.pc = "scan"
    /\ ticker.queue # <<>>
    /\ LET e == Head(ticker.queue)
       IN  /\ ~e.expired
           /\ signal_states[e.signal_id].written_by = "ticker"
           /\ ~DeadlineReached(signal_states[e.signal_id])

(***************************************************************************)
(* C9.  A signal that is not overridden and whose phase has lasted its     *)
(* duration eventually leaves that phase (or is overridden), under a fair  *)
(* ticker: no signal stays in one phase forever.  The clock of the model   *)
(* stops after MaxTicks steps, so a record that is replaced by a fresh one *)
(* of the same phase also discharges the obligation: what is refuted is a  *)
(* record that stays past its deadline for ever while the ticker runs.     *)
(***************************************************************************)
C9_NormalSignalKeepsCycling ==
    \A s \in SignalIds :
        (/\ signal_states[s] # NoSignal
         /\ ~Overridden(signal_states[s])
         /\ DeadlineReached(signal_states[s]))
          ~> (Overridden(signal_states[s]) \/ ~DeadlineReached(signal_states[s]))

(***************************************************************************)
(* C10.  The ticker ends an override only when the override record it      *)
(* replaces has reached its own deadline state_start_time +                *)
(* remaining_time: an override restarted between the ticker's expiry check *)
(* and its restore is not ended before the new deadline.                   *)
(***************************************************************************)
C10_TickerRestoresAtDeadline ==
    [][\A s \in SignalIds : TickerRestores(s) => DeadlineReached(signal_states[s])]_vars

(***************************************************************************)
(* C11.  When two emergency_override calls run concurrently on one signal, *)
(* each write leaves a record that is entirely the writing call's: its     *)
(* remaining_time, its reason and a fresh start time, GREEN with the       *)
(* override active, so the record after both writes is the later call's.   *)
(* No record built by an override ever pairs the duration of one call with *)
(* the reason of another.                                                  *)
(***************************************************************************)
OverridesInFlight(h, g) ==
    /\ g # h
    /\ handlers[g].op = "override"
    /\ handlers[g].signal_id = handlers[h].signal_id
    /\ handlers[g].pc \in {"create", "ov_read", "ov_write"}

CallValues == {<<a.duration, a.reason>> : a \in OverrideArgs}

C11_ConcurrentOverridesNotTorn ==
    [][/\ \A h \in Handlers :
            (OverrideWrites(h) /\ handlers[h].op = "override"
               /\ ((\E g \in Handlers : OverridesInFlight(h, g)) \/ ~handlers[h].cur.attached)) =>
              LET new == signal_states'[handlers[h].signal_id]
              IN  /\ new.remaining_time = handlers[h].duration
                  /\ new.override_reason = handlers[h].reason
                  /\ new.elapsed = 0
                  /\ new.current_state = "green"
                  /\ new.is_emergency_override
       /\ \A s \in SignalIds :
            (signal_states'[s].written_by = "override" /\ signal_states'[s].override_reason \in
                                                            {a.reason : a \in OverrideArgs}) =>
              /\ <<signal_states'[s].remaining_time, signal_states'[s].override_reason>> \in CallValues
              /\ signal_states'[s].is_emergency_override
              /\ signal_states'[s].current_state = "green"
      ]_vars

(* one override has landed on the signal between the read and the write of
   another override with other arguments *)
C11_Witness ==
    \E h \in Handlers :
        /\ handlers[h].pc = "ov_write"
        /\ handlers[h].op = "override"
        /\ ~handlers[h].cur.attached
        /\ last.op = "override"
        /\ last.signal_id = handlers[h].signal_id
        /\ signal_states[handlers[h].signal_id].written_by = "override"
        /\ signal_states[handlers[h].signal_id].remaining_time = last.result.duration
        /\ signal_states[handlers[h].signal_id].remaining_time # handlers[h].duration

(***************************************************************************)
(* C12.  emergency_override on a signal that is already overridden         *)
(* restarts the window: reading the overridden record leaves its snapshot  *)
(* as it is, the record written has remaining_time d2 (not d1 + d2),       *)
(* reason r2, a fresh start time and the normal_timing of the record it    *)
(* replaces; whatever the number of overrides, one restore (by a request   *)
(* or by the ticker on expiry) leaves the signal in normal mode.           *)
(***************************************************************************)
OverrideReads(h) ==
    /\ handlers[h].pc \in {"idle", "ov_read"}
    /\ handlers'[h].pc = "ov_write"

C12_ReentrantOverrideRestarts ==
    [][/\ \A h \in Handlers :
            (OverrideReads(h) /\ Overridden(signal_states[handlers'[h].signal_id])) =>
              signal_states' = signal_states
       /\ \A h \in Handlers :
            (OverrideWrites(h) /\ Overridden(signal_states[handlers[h].signal_id])) =>
              LET old == signal_states[handlers[h].signal_id]
                  new == signal_states'[handlers[h].signal_id]
              IN  /\ new.remaining_time = handlers[h].duration
                  /\ new.override_reason = handlers[h].reason
                  /\ new.elapsed = 0
                  /\ new.is_emergency_override
                  /\ handlers[h].cur.attached => new.normal_timing = old.normal_timing
       /\ \A h \in Handlers :
            RestoreWrites(h) => ~Overridden(signal_states'[handlers[h].signal_id])
       /\ \A s \in SignalIds : TickerRestores(s) => ~Overridden(signal_states'[s])
      ]_vars

(* clock_tower was overridden from RED, the ticker found that window over,
   and a second override has restarted it before the ticker's restore: the
   record is a fresh override that still holds the snapshot of the RED phase *)
C12_Witness ==
    /\ ticker.pc = "restore"
    /\ ticker.signal_id = "clock_tower"
    /\ ~ticker.cur.attached
    /\ last.op = "override"
    /\ last.signal_id = "clock_tower"
    /\ signal_states["clock_tower"].written_by = "override"
    /\ signal_states["clock_tower"].elapsed = 0
    /\ signal_states["clock_tower"].normal_timing.kind = "snapshot"
    /\ signal_states["clock_tower"].normal_timing.state = "red"

(***************************************************************************)
(* C13.  emergency_override(id, d, r) with d <= 0 is rejected: the call    *)
(* returns a failure and the record of id is as it was (and an unknown id  *)
(* is still unknown) when it returns.                                      *)
(***************************************************************************)
C13_NonPositiveDurationRejected ==
    [][\A h \in Handlers :
          (last'.op = "override" /\ handlers[h].pc # "idle" /\ handlers'[h].pc = "idle"
             /\ handlers[h].op = "override" /\ handlers[h].duration <= 0) =>
            /\ ~last'.result.success
            /\ signal_states'[handlers[h].signal_id] = signal_states[handlers[h].signal_id]
      ]_vars

(***************************************************************************)
(* C14.  update_timing(id, cfg) with a cfg that lacks one of the three     *)
(* durations, or holds a non-integer or non-positive value for one,        *)
(* returns a failure and no step of the call changes the dict: no record   *)
(* changes and no id is added.                                             *)
(***************************************************************************)
InvalidTiming(cfg) ==
    \E f \in {cfg.red_duration, cfg.yellow_duration, cfg.green_duration} :
        ~f.present \/ ~f.is_int \/ f.value <= 0

C14_InvalidTimingMutatesNothing ==
    [][/\ \A h \in Handlers :
            (handlers[h].op = "update_timing" /\ InvalidTiming(handlers[h].cfg)
               /\ handlers'[h].pc # handlers[h].pc) =>
              /\ signal_states' = signal_states
              /\ order' = order
              /\ handlers'[h].pc = "idle" => (last'.op = "update_timing" /\ ~last'.result.success)
       /\ (last'.op = "update_timing" /\ ~last'.result.success) =>
              signal_states' = signal_states /\ order' = order
      ]_vars

(***************************************************************************)
(* C15.  The plan of coordinate_green_corridor(route, D), n >= 1, follows  *)
(* the partition rule: with interval = max(10, floor(D / n)), the signal   *)
(* at index i has delay i * interval and green duration                    *)
(* min(60, D - delay); exactly the indices whose green duration is <= 0    *)
(* are left out and the others keep route order.  (['a','b'], 60) gives    *)
(* [(a, 0, 60), (b, 30, 30)].                                              *)
(***************************************************************************)
RuleInterval(n, D) == IF D \div n >= 10 THEN D \div n ELSE 10

RuleGreen(n, D, i) == IF D - i * RuleInterval(n, D) <= 60 THEN D - i * RuleInterval(n, D) ELSE 60

KeptIndices(n, D) == {i \in 0..(n - 1) : RuleGreen(n, D, i) > 0}

(* the index of the route that the k-th plan entry stands for *)
KeptIndex(n, D, k) ==
    CHOOSE i \in KeptIndices(n, D) : Cardinality({j \in KeptIndices(n, D) : j < i}) = k - 1

Planned == corridor.pc = "planned"

C15_PlanFollowsPartitionRule ==
    Planned =>
      LET route == corridor.route_signals
          n == Len(route)
          D == corridor.total_duration
          plan == corridor.coordination_plan
      IN  /\ Len(plan) = Cardinality(KeptIndices(n, D))
          /\ \A k \in 1..Len(plan) :
                LET i == KeptIndex(n, D, k)
                IN  /\ plan[k].signal_id = route[i + 1]
                    /\ plan[k].delay_from_start = i * RuleInterval(n, D)
                    /\ plan[k].green_duration = RuleGreen(n, D, i)
          /\ (n = 2 /\ D = 60) =>
                /\ Len(plan) = 2
                /\ <<plan[1].delay_from_start, plan[1].green_duration>> = <<0, 60>>
                /\ <<plan[2].delay_from_start, plan[2].green_duration>> = <<30, 30>>

(* a plan of a route of three signals from which the last one was dropped,
   with the floor of 10 s applied *)
C15_Witness ==
    /\ Planned
    /\ Len(corridor.route_signals) = 3
    /\ corridor.total_duration = 20
    /\ Len(corridor.coordination_plan) = 2
    /\ corridor.coordination_plan[2].delay_from_start = 10
    /\ corridor.coordination_plan[2].green_duration = 10

(***************************************************************************)
(* C16.  In every plan the delays are non-decreasing along the plan, the   *)
(* first entry of a non-empty plan has delay 0, and three signals with     *)
(* D = 90 give three entries.                                              *)
(***************************************************************************)
C16_DelaysNonDecreasing ==
    Planned =>
      LET plan == corridor.coordination_plan
      IN  /\ \A k \in 1..Len(plan) : \A m \in k..Len(plan) :
                plan[k].delay_from_start <= plan[m].delay_from_start
          /\ plan # <<>> => plan[1].delay_from_start = 0
          /\ (Len(corridor.route_signals) = 3 /\ corridor.total_duration = 90) => Len(plan) = 3

(* the plan of three signals and D = 90: delays 0, 30, 60 *)
C16_Witness ==
    /\ Planned
    /\ Len(corridor.route_signals) = 3
    /\ corridor.total_duration = 90
    /\ Len(corridor.coordination_plan) = 3
    /\ corridor.coordination_plan[1].delay_from_start = 0
    /\ corridor.coordination_plan[2].delay_from_start = 30
    /\ corridor.coordination_plan[3].delay_from_start = 60

(***************************************************************************)
(* C17.  Every plan entry has 0 < green_duration <= D,                     *)
(* 0 <= delay_from_start <= D and delay_from_start + green_duration        *)
(* <= D + 120; the windows in fact end by D.                               *)
(***************************************************************************)
C17_WindowsInsideCorridor ==
    Planned =>
      LET D == corridor.total_duration
          plan == corridor.coordination_plan
      IN  \A k \in 1..Len(plan) :
            /\ 0 < plan[k].green_duration
            /\ plan[k].green_duration <= D
            /\ 0 <= plan[k].delay_from_start
            /\ plan[k].delay_from_start <= D
            /\ plan[k].delay_from_start + plan[k].green_duration <= D + 120
            /\ plan[k].delay_from_start + plan[k].green_duration <= D

(* a plan whose last window is cut by the end of the corridor and whose
   first window is capped at 60 s *)
C17_Witness ==
    /\ Planned
    /\ corridor.total_duration = 130
    /\ Len(corridor.coordination_plan) = 3
    /\ corridor.coordination_plan[1].green_duration = 60
    /\ corridor.coordination_plan[3].delay_from_start = 86
    /\ corridor.coordination_plan[3].green_duration = 44

(***************************************************************************)
(* C18.  coordinate_green_corridor returns success exactly when            *)
(* successful_coordinates is not empty; every plan entry is reported once, *)
(* in successful_coordinates or in failed_coordinates; a signal whose      *)
(* scheduling fails leaves the signals coordinated before it as they are   *)
(* and the call goes on with the entries after it.                         *)
(***************************************************************************)
RECURSIVE Count(_, _)
Count(ids, s) ==
    IF ids = <<>> THEN 0
    ELSE (IF Head(ids) = s THEN 1 ELSE 0) + Count(Tail(ids), s)

IdsOf(entries) == [k \in 1..Len(entries) |-> entries[k].signal_id]

CorridorReturned == corridor.pc = "returned"

(* the step of h reports a failure for plan entry handlers[h].i *)
ReportsFailure(h) ==
    /\ handlers[h].op = "coordinate"
    /\ handlers[h].pc = "co_exec"
    /\ \/ Len(handlers'[h].failed_coordinates) = Len(handlers[h].failed_coordinates) + 1
       \/ /\ handlers'[h].pc = "idle"
          /\ Len(corridor'.failed_coordinates) = Len(handlers[h].failed_coordinates) + 1

C18_SuccessIffAnyCoordinated ==
    [][/\ CorridorReturned' =>
            /\ corridor'.success <=> corridor'.successful_coordinates # <<>>
            /\ last'.op = "coordinate" /\ last'.result.success = corridor'.success
            /\ Len(corridor'.successful_coordinates) + Len(corridor'.failed_coordinates)
                  = Len(corridor'.coordination_plan)
            /\ \A s \in SignalIds :
                  Count(IdsOf(corridor'.coordination_plan), s)
                    = Count(corridor'.successful_coordinates, s)
                        + Count(IdsOf(corridor'.failed_coordinates), s)
       /\ \A h \in Handlers :
            ReportsFailure(h) =>
              /\ signal_states' = signal_states
              /\ scheduled' = scheduled
              /\ IF handlers'[h].pc = "idle"
                 THEN /\ corridor'.successful_coordinates = handlers[h].successful_coordinates
                      /\ handlers[h].i = Len(corridor'.coordination_plan)
                 ELSE /\ handlers'[h].successful_coordinates = handlers[h].successful_coordinates
                      /\ handlers'[h].pc = "co_exec"
                      /\ handlers'[h].i = handlers[h].i + 1
      ]_vars

(* a call returned success although the scheduling of its second signal
   failed: the first signal is overridden and the third was still scheduled *)
C18_Witness ==
    /\ CorridorReturned
    /\ corridor.success
    /\ Len(corridor.coordination_plan) = 3
    /\ IdsOf(corridor.failed_coordinates) = <<corridor.coordination_plan[2].signal_id>>
    /\ corridor.successful_coordinates = <<corridor.coordination_plan[1].signal_id,
                                           corridor.coordination_plan[3].signal_id>>
    /\ \E e \in scheduled : e.signal_id = corridor.coordination_plan[3].signal_id
    /\ Overridden(signal_states[corridor.coordination_plan[1].signal_id])

(***************************************************************************)
(* C19.  Inside coordinate_green_corridor, emergency_override runs only    *)
(* for a plan entry with delay 0, whose signal it leaves GREEN, overridden *)
(* for the entry's green_duration; the step for an entry with delay > 0    *)
(* changes no signal record and at most records a trigger with the         *)
(* signal's id, the time left to its start and its green_duration.         *)
(***************************************************************************)
(* the plan entries are the route entries with a positive window, which are
   a prefix of the route: entry k of the plan is entry k of the route *)
PlanOf(req) ==
    [k \in 1..Len(req.route_signals) |->
        [signal_id |-> req.route_signals[k],
         delay_from_start |-> (k - 1) * RuleInterval(Len(req.route_signals), req.total_duration),
         green_duration |-> RuleGreen(Len(req.route_signals), req.total_duration, k - 1)]]

CorridorOverrideWrites(h) == handlers[h].pc = "co_write" /\ handlers'[h].pc # "co_write"
CorridorOverrideReads(h) == handlers[h].pc # "co_write" /\ handlers'[h].pc = "co_write"
CorridorEntryStep(h) == handlers[h].pc = "co_exec" /\ handlers'[h].pc # "co_write"
                          /\ handlers'[h] # handlers[h] /\ nticks' = nticks

C19_OnlyFirstSignalOverridden ==
    [][\A h \in Handlers :
          /\ CorridorOverrideReads(h) =>
                PlanOf(handlers'[h])[handlers'[h].i].delay_from_start = 0
          /\ CorridorOverrideWrites(h) =>
                LET entry == PlanOf(handlers[h])[handlers[h].i]
                    new == signal_states'[entry.signal_id]
                IN  /\ entry.delay_from_start = 0
                    /\ new.current_state = "green"
                    /\ new.is_emergency_override
                    /\ new.remaining_time = entry.green_duration
                    /\ new.elapsed = 0
                    /\ scheduled' = scheduled
          /\ CorridorEntryStep(h) =>
                LET entry == PlanOf(handlers[h])[handlers[h].i]
                IN  /\ entry.delay_from_start > 0
                    /\ signal_states' = signal_states
                    /\ order' = order
                    /\ \/ scheduled' = scheduled
                       \/ \E e \in scheduled' :
                            /\ e.signal_id = entry.signal_id
                            /\ e.duration = entry.green_duration
                            /\ e.due_in + handlers[h].waited >= entry.delay_from_start
                            /\ e.due_in <= entry.delay_from_start
                            /\ e.due_in = 0 => handlers[h].waited >= entry.delay_from_start
                            /\ scheduled' \subseteq scheduled \cup {e}
      ]_vars

(* a corridor call has returned: its first signal is GREEN under override
   for 60 s, the second has a trigger 30 s ahead and is still RED in normal
   mode *)
C19_Witness ==
    /\ CorridorReturned
    /\ corridor.successful_coordinates = <<"clock_tower", "new_signal">>
    /\ signal_states["clock_tower"].current_state = "green"
    /\ signal_states["clock_tower"].is_emergency_override
    /\ signal_states["clock_tower"].remaining_time = 60
    /\ signal_states["clock_tower"].override_reason
          = "Green corridor coordination - Signal 1 of 2"
    /\ [signal_id |-> "new_signal", due_in |-> 30, duration |-> 30] \in scheduled
    /\ signal_states["new_signal"].current_state = "red"
    /\ ~signal_states["new_signal"].is_emergency_override

(***************************************************************************)
(* C20.  A trigger recorded for a plan entry with delay > 0 is eventually  *)
(* executed once its start time has come, while the monitor thread and the *)
(* handlers keep running: the signal becomes GREEN under an override of    *)
(* the planned green_duration.                                             *)
(***************************************************************************)
C20_ScheduledOverrideExecutes ==
    \A s \in SignalIds :
        (\E e \in scheduled : e.signal_id = s /\ e.due_in = 0 /\ e.duration = 30)
          ~> (/\ Overridden(signal_states[s])
              /\ signal_states[s].current_state = "green"
              /\ signal_states[s].remaining_time = 30)

(***************************************************************************)
(* C21.  The first reference to an unknown id by emergency_override,       *)
(* update_timing or coordinate_green_corridor creates its record RED, with *)
(* default_red_duration and not overridden, before the operation touches   *)
(* it; a reference to an id that has a record never replaces that record   *)
(* by a fresh one.                                                         *)
(***************************************************************************)
CreatesRecord(h) ==
    /\ handlers[h].pc \in {"create", "co_create"}
    /\ handlers'[h].pc # handlers[h].pc

CreatedId(h) ==
    IF handlers[h].op = "coordinate" THEN handlers[h].route_signals[handlers[h].i]
    ELSE handlers[h].signal_id

FreshRed(rec) ==
    /\ rec.current_state = "red"
    /\ rec.remaining_time = default_red_duration
    /\ rec.elapsed = 0
    /\ ~rec.is_emergency_override
    /\ rec.override_reason = ""

C21_LazyCreationNeverResets ==
    [][/\ \A s \in SignalIds :
            (signal_states[s] = NoSignal /\ signal_states'[s] # NoSignal) =>
               /\ FreshRed(signal_states'[s])
               /\ \E h \in Handlers : CreatesRecord(h) /\ CreatedId(h) = s
       /\ \A h \in Handlers :
            (handlers[h].pc \in {"ov_read", "ov_write", "ut_apply", "co_write"}
               /\ handlers'[h].pc # handlers[h].pc) =>
               signal_states[handlers[h].signal_id] # NoSignal
       /\ \A h \in Handlers :
            (CreatesRecord(h) /\ signal_states[CreatedId(h)] # NoSignal) =>
               signal_states'[CreatedId(h)] = signal_states[CreatedId(h)]
      ]_vars

(***************************************************************************)
(* C22.  A Redis failure in the mirror write or the event-log write of     *)
(* emergency_override, restore_normal_operation, update_timing or a ticker *)
(* transition is swallowed: the step in which the Redis command raised     *)
(* still returns the success result of the operation and leaves the record *)
(* the operation leaves when Redis answers, and the ticker goes on with    *)
(* its pass.                                                               *)
(***************************************************************************)
UpdateApplies(h) == handlers[h].pc = "ut_write" /\ handlers'[h].pc = "idle"

RedisRaised == redis_error'

C22_RedisFailureSwallowed ==
    [][RedisRaised =>
         /\ \A h \in Handlers :
              OverrideWrites(h) =>
                LET req == handlers[h]
                    new == signal_states'[req.signal_id]
                IN  /\ last'.op = "override" /\ last'.result.success
                    /\ last'.result.new_state = "green"
                    /\ last'.result.duration = req.duration
                    /\ new.current_state = "green"
                    /\ new.is_emergency_override
                    /\ new.remaining_time = req.duration
                    /\ new.elapsed = 0
                    /\ new.override_reason = req.reason
         /\ \A h \in Handlers :
              RestoreWrites(h) =>
                /\ last'.op = "restore" /\ last'.result.success
                /\ last'.result.new_state = "yellow"
                /\ RestoredToYellow(signal_states'[handlers[h].signal_id])
         /\ \A h \in Handlers :
              UpdateApplies(h) =>
                LET cfg == handlers[h].cfg
                    nt == signal_states'[handlers[h].signal_id].normal_timing
                IN  /\ last'.op = "update_timing" /\ last'.result.success
                    /\ handlers[h].cur.attached =>
                         /\ nt.kind = "timing"
                         /\ nt.red_duration = cfg.red_duration.value
                         /\ nt.yellow_duration = cfg.yellow_duration.value
                         /\ nt.green_duration = cfg.green_duration.value
                    /\ ~handlers[h].cur.attached => signal_states' = signal_states
         /\ \A s \in SignalIds :
              TickerTransitions(s) =>
                LET new == signal_states'[s]
                IN  /\ new.current_state = ticker.next_state
                    /\ new.remaining_time = ticker.next_duration
                    /\ new.elapsed = 0
                    /\ ~new.is_emergency_override
                    /\ ticker'.pc \in {"scan", "sleep"}
      ]_vars

(* an override has just returned success although its Redis write raised *)
C22_Witness ==
    /\ redis_error
    /\ last.op = "override"
    /\ last.result.success
    /\ signal_states[last.signal_id].current_state = "green"
    /\ signal_states[last.signal_id].is_emergency_override
    /\ signal_states[last.signal_id].written_by = "override"

(***************************************************************************)
(* C23.  An error met on one signal does not end a pass of the monitor     *)
(* thread: the pass goes back to sleep only when no record of its list     *)
(* whose deadline has passed is still waiting to be looked at.             *)
(***************************************************************************)
PassEnds == ticker.pc # "sleep" /\ ticker'.pc = "sleep"

C23_FailureDoesNotStopPass ==
    [][PassEnds =>
         \A k \in 1..Len(ticker.queue) :
             (ticker.pc = "scan" /\ k = 1) \/ ~ticker.queue[k].expired
      ]_vars

(***************************************************************************)
(* C24.  Once shutdown() has cleared the flag, the monitor thread starts   *)
(* no new pass and comes to rest; a pass that is under way still writes    *)
(* the transitions and restores it had set out to write; the step of       *)
(* shutdown changes no record and no id; and once the thread is at rest,   *)
(* a record changes only in a step of a request handler.                   *)
(***************************************************************************)
ShutdownStep == monitoring_active /\ ~monitoring_active'

SameRecord(a, b) == [a EXCEPT !.elapsed = 0] = [b EXCEPT !.elapsed = 0]

C24_ShutdownStopsTicker ==
    /\ [][/\ ShutdownStep =>
               /\ signal_states' = signal_states
               /\ order' = order
               /\ ticker' = ticker
          /\ ~monitoring_active =>
               /\ ~monitoring_active'
               /\ ~(ticker.pc = "sleep" /\ ticker'.pc # "sleep")
               /\ \A s \in SignalIds :
                    /\ TickerTransitions(s) =>
                         /\ signal_states'[s].current_state = ticker.next_state
                         /\ signal_states'[s].remaining_time = ticker.next_duration
                    /\ TickerRestores(s) => RestoredToYellow(signal_states'[s])
          /\ (~monitoring_active /\ ticker.pc = "sleep") =>
               \A s \in SignalIds :
                    ~SameRecord(signal_states'[s], signal_states[s]) =>
                        \E h \in Handlers : handlers'[h] # handlers[h]
         ]_vars
    /\ (~monitoring_active ~> (ticker.pc = "sleep"))

(* the flag was cleared while the monitor thread was about to write a
   transition *)
C24_Witness ==
    /\ ~monitoring_active
    /\ ticker.pc = "trans"

(***************************************************************************)
(* C25.  In the detection route, the step that follows the classification  *)
(* enters emergency_override on the signal id of the request, with the     *)
(* default override duration, exactly when the classification said         *)
(* is_emergency; when it said no emergency, no record and no id changes.   *)
(***************************************************************************)
DetectionActs(h) == handlers[h].pc = "dt_classified" /\ handlers'[h].pc # "dt_classified"

EntersOverride(h) ==
    /\ handlers'[h].pc \in {"create", "ov_write"}
    /\ handlers'[h].op = "override"
    /\ handlers'[h].signal_id = handlers[h].signal_id
    /\ handlers'[h].duration = emergency_override_duration

C25_OverrideIffEmergency ==
    [][\A h \in Handlers :
         DetectionActs(h) =>
           /\ EntersOverride(h) <=> handlers[h].is_emergency
           /\ ~handlers[h].is_emergency =>
                (signal_states' = signal_states /\ order' = order)
      ]_vars

(***************************************************************************)
(* C26.  A failure of the persistence sink does not block the override:    *)
(* whatever log_emergency_detection does, a request that was classified    *)
(* as an emergency does not return before emergency_override has made the  *)
(* signal GREEN and overridden.                                            *)
(***************************************************************************)
C26_SinkFailureDoesNotBlock ==
    [][\A h \in Handlers :
         (handlers[h].endpoint = "detect_emergency_vehicle" /\ handlers[h].is_emergency
            /\ handlers'[h].pc = "idle") =>
           /\ signal_states'[handlers[h].signal_id].current_state = "green"
           /\ signal_states'[handlers[h].signal_id].is_emergency_override
      ]_vars

(***************************************************************************)
(* C27.  get_signal_status reports as remaining_time the planned duration  *)
(* of the phase minus the seconds elapsed, cut to whole seconds and never  *)
(* below 0: the value lies between 0 and the planned duration; a status    *)
(* taken of a signal that an override of 60 s has just made GREEN reports  *)
(* GREEN, overridden and at most 60; and the value is 0 for a record whose *)
(* deadline has passed and that the monitor thread has not yet replaced.   *)
(***************************************************************************)
StatusReturned == last.op = "status" /\ last.result.error = ""

C27_StatusRemainingTime ==
    StatusReturned =>
        LET rec == signal_states[last.signal_id]
            status == last.result
        IN  /\ status.remaining_time >= 0
            /\ status.remaining_time <= rec.remaining_time
            /\ status.remaining_time <= rec.remaining_time - rec.elapsed
            /\ status.remaining_time > rec.remaining_time - rec.elapsed - 4
                 \/ status.remaining_time = 0
            /\ status.current_state = rec.current_state
            /\ status.is_emergency_override = rec.is_emergency_override
            /\ status.override_reason = rec.override_reason
            /\ (rec.written_by = "override" /\ rec.remaining_time = 60) =>
                 /\ status.current_state = "green"
                 /\ status.is_emergency_override
                 /\ status.remaining_time <= 60
            /\ DeadlineReached(rec) => status.remaining_time = 0

(* a status taken after the deadline of an override, before the monitor
   thread restored the signal, reports 0 *)
C27_Witness ==
    /\ StatusReturned
    /\ signal_states[last.signal_id].is_emergency_override
    /\ signal_states[last.signal_id].remaining_time > 0
    /\ DeadlineReached(signal_states[last.signal_id])
    /\ last.result.remaining_time = 0

(***************************************************************************)
(* C28.  In every reachable state each record of the dict is in one of the *)
(* phases red, yellow, green, and is either in normal operation or         *)
(* overridden: is_emergency_override is one of the two booleans.           *)
(***************************************************************************)
C28_PhaseAndModeWellFormed ==
    \A s \in SignalIds :
        signal_states[s] # NoSignal =>
            /\ signal_states[s].current_state \in {"red", "yellow", "green"}
            /\ signal_states[s].is_emergency_override \in BOOLEAN

(* the monitor thread has taken a signal through yellow back to red *)
C28_Witness ==
    \E s \in SignalIds :
        /\ signal_states[s].written_by = "ticker"
        /\ signal_states[s].current_state = "red"
        /\ ~signal_states[s].is_emergency_override

(***************************************************************************)
(* C29.  No step removes a signal from the dict: an id that is known stays *)
(* known, and the default signals are known from construction on.          *)
(***************************************************************************)
Known(states, s) == states[s].current_state # "absent"

C29_SignalsNeverRemoved ==
    /\ [](\A i \in 1..Len(default_signals) : Known(signal_states, default_signals[i]))
    /\ [][\A s \in SignalIds : Known(signal_states, s) => Known(signal_states', s)]_vars

(* a signal created on first reference has since been restored and then
   advanced by the monitor thread *)
C29_Witness ==
    \E s \in SignalIds :
        /\ \A i \in 1..Len(default_signals) : default_signals[i] # s
        /\ Known(signal_states, s)
        /\ signal_states[s].written_by = "ticker"

(***************************************************************************)
(* C30.  A signal that is not overridden has an empty override_reason, and *)
(* the record written by restore_normal_operation (called by a request or  *)
(* by the monitor thread) and by every ticker transition has an empty      *)
(* override_reason.                                                        *)
(***************************************************************************)
C30_ReasonOnlyWhileOverridden ==
    /\ [](\A s \in SignalIds :
            ~signal_states[s].is_emergency_override => signal_states[s].override_reason = "")
    /\ [][/\ \A s \in SignalIds :
               (TickerTransitions(s) \/ TickerRestores(s)) =>
                   signal_states'[s].override_reason = ""
          /\ \A h \in Handlers :
               RestoreWrites(h) => signal_states'[handlers[h].signal_id].override_reason = ""
         ]_vars

(* a signal that was overridden with a reason has been restored *)
C30_Witness ==
    \E s \in SignalIds :
        /\ signal_states[s].written_by = "restore"
        /\ signal_states[s].override_reason = ""
        /\ ~signal_states[s].is_emergency_override

(***************************************************************************)
(* C31.  update_timing(id, cfg) with three positive integer durations      *)
(* returns success, whether the id was known or had to be created and      *)
(* whether the signal is overridden or not, and the new_timing it reports  *)
(* holds cfg's durations and their sum as cycle_time.                      *)
(***************************************************************************)
UpdateReturns(h) ==
    /\ handlers[h].op = "update_timing"
    /\ handlers[h].pc # "idle"
    /\ handlers'[h].pc = "idle"

C31_ValidTimingAccepted ==
    [][\A h \in Handlers :
         (UpdateReturns(h) /\ ~InvalidTiming(handlers[h].cfg)) =>
            LET cfg == handlers[h].cfg
                new_timing == last'.result.new_timing
            IN  /\ last'.op = "update_timing"
                /\ last'.signal_id = handlers[h].signal_id
                /\ last'.result.success
                /\ new_timing.red_duration = cfg.red_duration.value
                /\ new_timing.yellow_duration = cfg.yellow_duration.value
                /\ new_timing.green_duration = cfg.green_duration.value
                /\ new_timing.cycle_time = cfg.red_duration.value + cfg.yellow_duration.value
                                             + cfg.green_duration.value
      ]_vars

(* update_timing has just returned success on an id that was created on
   first reference and is overridden *)
C31_Witness ==
    /\ last.op = "update_timing"
    /\ last.result.success
    /\ last.result.new_timing.cycle_time = 25
    /\ \A i \in 1..Len(default_signals) : default_signals[i] # last.signal_id
    /\ signal_states[last.signal_id].is_emergency_override

(***************************************************************************)
(* C32.  update_confidence_threshold(t) returns True and leaves t as the   *)
(* detector's confidence threshold when 0 <= t <= 1; for every other t it  *)
(* returns False and the threshold is the one it was before.               *)
(***************************************************************************)
ThresholdCalled == last'.op = "update_confidence_threshold"

C32_ThresholdRangeChecked ==
    [][ThresholdCalled =>
         LET t == last'.result.new_threshold
         IN  IF t >= 0 /\ t <= 100
             THEN last'.result.value /\ confidence_threshold' = t
             ELSE ~last'.result.value /\ confidence_threshold' = confidence_threshold
      ]_vars

(* a call with 1.01 has been refused after the threshold was set to 0.7 *)
C32_Witness ==
    /\ last.op = "update_confidence_threshold"
    /\ last.result.new_threshold = 101
    /\ ~last.result.value
    /\ confidence_threshold = 70

(***************************************************************************)
(* C33.  The timing profile set by update_timing outlives an emergency     *)
(* override: when the monitor thread advances a signal out of the phase    *)
(* that restore_normal_operation (called by a request or on expiry) gave   *)
(* it, the phase entered lasts the duration that the profile of the last   *)
(* successful update_timing on that signal has for it.                     *)
(***************************************************************************)
ProfileDuration(profile, phase) ==
    IF phase = "green" THEN profile.green_duration
    ELSE IF phase = "yellow" THEN profile.yellow_duration
    ELSE profile.red_duration

C33_ProfileSurvivesOverride ==
    [][TickerEntersTransition =>
         LET s == ticker'.signal_id
         IN  (timing_profile[s].kind = "timing" /\ signal_states[s].written_by = "restore") =>
                ticker'.next_duration = ProfileDuration(timing_profile[s], ticker'.next_state)
      ]_vars

(***************************************************************************)
(* C34.  The record that restore_normal_operation writes, when a request   *)
(* calls it or when the monitor thread calls it on expiry, plans the       *)
(* YELLOW phase for the yellow duration of the signal's timing profile:    *)
(* when the overridden record holds the profile of the last successful     *)
(* update_timing, the restored record has that profile's yellow_duration   *)
(* as remaining_time.                                                      *)
(***************************************************************************)
HoldsProfile(s) ==
    /\ timing_profile[s].kind = "timing"
    /\ signal_states[s].normal_timing = timing_profile[s]

C34_RestoreUsesConfiguredYellow ==
    [][/\ \A h \in Handlers :
            (RestoreWrites(h) /\ handlers[h].cur.attached /\ HoldsProfile(handlers[h].signal_id)) =>
               signal_states'[handlers[h].signal_id].remaining_time =
                   timing_profile[handlers[h].signal_id].yellow_duration
       /\ \A s \in SignalIds :
            (TickerRestores(s) /\ ticker.cur.attached /\ HoldsProfile(s)) =>
               signal_states'[s].remaining_time = timing_profile[s].yellow_duration
      ]_vars

(***************************************************************************)
(* C35.  A successful update_timing changes nothing but the timing profile *)
(* of its signal: the step that applies it leaves the phase, the start     *)
(* time, the remaining time, the override flag and the reason of that      *)
(* record, every other record and the set of records as they were, and the *)
(* normal_timing of the record it read becomes the new profile.  From then *)
(* on the ticker, entering a phase of a signal in normal mode whose record *)
(* holds that profile, gives the phase the profile's duration, and the     *)
(* record it writes keeps the profile.                                     *)
(***************************************************************************)
SameButTiming(a, b) == [a EXCEPT !.normal_timing = NoTiming] = [b EXCEPT !.normal_timing = NoTiming]

C35_UpdateChangesOnlyProfile ==
    [][/\ \A h \in Handlers :
            (UpdateApplies(h) /\ last'.result.success) =>
               LET id == handlers[h].signal_id
               IN  /\ \A s \in SignalIds \ {id} : signal_states'[s] = signal_states[s]
                   /\ SameButTiming(signal_states'[id], signal_states[id])
                   /\ order' = order
                   /\ handlers[h].cur.attached =>
                        signal_states'[id].normal_timing = timing_profile'[id]
       /\ TickerEntersTransition =>
            LET s == ticker'.signal_id
            IN  (HoldsProfile(s) /\ ~signal_states[s].is_emergency_override) =>
                   ticker'.next_duration = ProfileDuration(timing_profile[s], ticker'.next_state)
       /\ \A s \in SignalIds :
            (TickerTransitions(s) /\ ticker.cur.attached /\ HoldsProfile(s)) =>
               signal_states'[s].normal_timing = timing_profile[s]
      ]_vars

(* update_timing has changed the profile of a signal in the middle of a    *)
(* phase, and the ticker has since entered the next phase with the         *)
(* profile's duration, which differs from the default one                  *)
C35_Witness ==
    \E s \in SignalIds :
        /\ HoldsProfile(s)
        /\ signal_states[s].written_by = "ticker"
        /\ ~signal_states[s].is_emergency_override
        /\ signal_states[s].remaining_time =
              ProfileDuration(timing_profile[s], signal_states[s].current_state)
        /\ signal_states[s].remaining_time #
              ProfileDuration(default_timing, signal_states[s].current_state)

(***************************************************************************)
(* C36.  A successful update_timing is not lost to the ticker: when        *)
(* update_timing returns success for a signal in normal mode whose record  *)
(* was last written by a transition of the ticker, and the ticker is not   *)
(* in the middle of a transition of that signal, the record in the dict    *)
(* holds the new profile, whether the ticker wrote the record before the   *)
(* read of update_timing or between its read and its assignment.           *)
(***************************************************************************)
TickerIdleOn(id) == ~(ticker'.pc \in {"trans", "restore"} /\ ticker'.signal_id = id)

C36_UpdateNotLostToTicker ==
    [][\A h \in Handlers :
          LET id == handlers[h].signal_id
          IN  (/\ UpdateApplies(h)
               /\ last'.result.success
               /\ signal_states[id].written_by = "ticker"
               /\ TickerIdleOn(id)) =>
                 signal_states'[id].normal_timing = NewTiming(handlers[h].cfg)
      ]_vars

(***************************************************************************)
(* C37.  In every reachable state a signal whose record has the override   *)
(* flag set is GREEN: no request and no step of the ticker leaves an       *)
(* overridden record that is RED or YELLOW, and update_timing applied to   *)
(* an overridden signal leaves its phase and its flag as they were.        *)
(***************************************************************************)
OverriddenIsGreen(rec) == rec.is_emergency_override => rec.current_state = "green"

C37_OverriddenIsGreen ==
    /\ [](\A s \in SignalIds : OverriddenIsGreen(signal_states[s]))
    /\ [][\A h \in Handlers :
            LET id == handlers[h].signal_id
            IN  (UpdateApplies(h) /\ signal_states[id].is_emergency_override) =>
                   /\ signal_states'[id].is_emergency_override
                   /\ signal_states'[id].current_state = signal_states[id].current_state
         ]_vars

(* update_timing has just been applied to an overridden signal, after the  *)
(* ticker and a restore had already moved other records or this one        *)
C37_Witness ==
    /\ last.op = "update_timing"
    /\ last.result.success
    /\ signal_states[last.signal_id].is_emergency_override
    /\ signal_states[last.signal_id].current_state = "green"
    /\ signal_states[last.signal_id].normal_timing = last.result.new_timing

(***************************************************************************)
(* C38.  Only the ticker performs time-based transitions.  A step in which *)
(* get_signal_status, get_all_signals_status or optimize_signal_timing     *)
(* returns leaves every signal record and the set of known signals as they *)
(* were, also when the deadline of the queried signal has passed; for an   *)
(* unknown id get_signal_status answers 'Signal not found' and the id is   *)
(* still unknown afterwards.  The phase of a record changes only in a      *)
(* writing step of the monitor thread or of a request handler.             *)
(***************************************************************************)
QueryReturns == last'.op \in {"status", "all_status", "optimize"}

HandlerWrites ==
    \E h \in Handlers : handlers[h].pc \in {"create", "ov_write", "rs_write", "co_write"}
                        /\ handlers'[h] # handlers[h]

C38_QueriesModifyNothing ==
    [][/\ QueryReturns => (signal_states' = signal_states /\ order' = order)
       /\ (last'.op = "status" /\ ~Exists(last'.signal_id)) =>
             /\ last'.result.error = "Signal not found"
             /\ signal_states'[last'.signal_id] = NoSignal
       /\ \A s \in SignalIds :
             signal_states'[s].current_state # signal_states[s].current_state =>
                \/ TickerTransitions(s) \/ TickerRestores(s)
                \/ HandlerWrites
      ]_vars

(* the status of a signal whose deadline has passed was asked for: the     *)
(* answer shows no time left and the record is still in the expired phase  *)
C38_Witness ==
    /\ last.op = "status"
    /\ last.result.error = ""
    /\ last.result.remaining_time = 0
    /\ DeadlineReached(signal_states[last.signal_id])
    /\ signal_states[last.signal_id].current_state = last.result.current_state
    /\ signal_states[last.signal_id].written_by = "ticker"

(***************************************************************************)
(* C39.  When coordinate_green_corridor returns normally for a non-empty   *)
(* route, every id of the route has a record, also the ids that got no     *)
(* green window and are not in the plan.  For such an id no step of the    *)
(* call changes a record that exists, and the record the call creates for  *)
(* it is RED, with the default red duration, and not overridden.           *)
(***************************************************************************)
CoordinateStep(h) ==
    /\ handlers[h].op = "coordinate" \/ handlers'[h].op = "coordinate"
    /\ handlers'[h].pc # handlers[h].pc \/ handlers'[h].i # handlers[h].i

PlanIn(h) ==
    IF handlers[h].op = "coordinate" THEN handlers[h].coordination_plan
    ELSE handlers'[h].coordination_plan

Dropped(h, s) == \A k \in 1..Len(PlanIn(h)) : PlanIn(h)[k].signal_id # s

C39_RouteSignalsExist ==
    [][/\ (corridor'.pc = "returned" /\ corridor'.route_signals # <<>>) =>
             \A i \in 1..Len(corridor'.route_signals) :
                 signal_states'[corridor'.route_signals[i]] # NoSignal
       /\ \A h \in Serving :
             CoordinateStep(h) =>
                \A s \in SignalIds :
                    (Dropped(h, s) /\ signal_states'[s] # signal_states[s]) =>
                        /\ ~Exists(s)
                        /\ FreshRed(signal_states'[s])
      ]_vars

(* a corridor over clock_tower and the unknown new_signal has returned     *)
(* with clock_tower alone in its plan, and new_signal has a record         *)
C39_Witness ==
    /\ corridor.pc = "returned"
    /\ corridor.route_signals = <<"clock_tower", "new_signal">>
    /\ IdsOf(corridor.coordination_plan) = <<"clock_tower">>
    /\ signal_states["new_signal"].written_by = "create"
    /\ signal_states["new_signal"].current_state = "red"
    /\ ~signal_states["new_signal"].is_emergency_override
    /\ signal_states["clock_tower"].is_emergency_override

(***************************************************************************)
(* C40.  For a speed above 0, calculate_green_corridor returns a plan with *)
(* one entry per signal of the route, in the order of the route; the first *)
(* entry has green_start_time 0, and along the plan the green_start_time   *)
(* values are never negative and never decrease.                           *)
(***************************************************************************)
CorridorCalculated == last.op = "calculate_green_corridor" /\ last.result.vehicle_speed > 0

C40_GreenStartsNonDecreasing ==
    CorridorCalculated =>
       LET route == last.result.route_signals
           plan == last.result.value.corridor_plan
       IN  /\ last.result.value.success
           /\ Len(plan) = Len(route)
           /\ \A k \in 1..Len(plan) : plan[k].signal_id = route[k]
           /\ Len(plan) >= 1 => plan[1].green_start_time = 0
           /\ \A k \in 1..Len(plan) : plan[k].green_start_time >= 0
           /\ \A k \in 1..(Len(plan) - 1) :
                 plan[k].green_start_time <= plan[k + 1].green_start_time

====
